---- MODULE Spec2Model ----
(***************************************************************************)
(* Model of the widget-tree core of the adb package (package uixml and the *)
(* Device wrappers that use it): the decoded Hierarchy/Node tree, the      *)
(* preorder Walk, the predicate searches Find / FindAll and the Device     *)
(* convenience wrapper FindNodes.                                          *)
(*                                                                         *)
(* Go passes Node by value, so a node is modelled as a nested record whose *)
(* Children field is the sequence of its child records.  A visitor or a    *)
(* predicate call is recorded as the pair [n, pn] of its two arguments;    *)
(* the sequence of these pairs is the call trace of an operation.          *)
(***************************************************************************)
EXTENDS Integers, Sequences, FiniteSets, TLC

(* ---------------------------------------------------------------------- *)
(* Bounds                                                                  *)
(* ---------------------------------------------------------------------- *)

\* largest number of nodes in a hierarchy
MaxNodes == 3

\* the coordinates 0..MaxCoord are formatted into bounds strings
MaxCoord == 3

\* longest bounds string made of arbitrary characters
MaxFreeLen == 4

(* ---------------------------------------------------------------------- *)
(* Data model                                                              *)
(* ---------------------------------------------------------------------- *)

\* a nil error
Nil == "nil"

\* fmt.Errorf("not found")
ErrNotFound == "not found"

\* the error d.XML() returns when the dump or the decode fails
ErrXML == "xml error"

ButtonClass == "android.widget.Button"

TextViewClass == "android.widget.TextView"

\* the largest value of the Go type int (the fields of Rect), 32-bit build
MaxInt == 2147483647

\* A Bounds string is modelled as the sequence of its characters, so that the
\* parser has to scan it.
DigitChars == <<"0", "1", "2", "3", "4", "5", "6", "7", "8", "9">>

Digits == { DigitChars[i] : i \in DOMAIN DigitChars }

\* the value of a decimal digit
DigitVal(c) == (CHOOSE i \in DOMAIN DigitChars : DigitChars[i] = c) - 1

RECURSIVE Itoa(_)

\* the %d formatting of a non-negative integer
Itoa(v) ==
    IF v < 10 THEN <<DigitChars[v + 1]>>
    ELSE Itoa(v \div 10) \o <<DigitChars[(v % 10) + 1]>>

\* the text "[g1,g2][g3,g4]" for four pieces of text
BoundsText(g1, g2, g3, g4) ==
    <<"[">> \o g1 \o <<",">> \o g2 \o <<"]", "[">> \o g3 \o <<",">> \o g4 \o <<"]">>

\* the bounds attribute "[x1,y1][x2,y2]" of a box with the given corners
FormatBounds(x1, y1, x2, y2) ==
    BoundsText(Itoa(x1), Itoa(y1), Itoa(x2), Itoa(y2))

\* Node{}: every attribute empty, no children
ZeroNode ==
    [Class |-> "", ContentDesc |-> "", Text |-> "", Clickable |-> "",
     Bounds |-> <<>>, Children |-> <<>>]

\* the attribute sets nodes of the modelled dumps carry
NodeKinds ==
    { [Class |-> "", ContentDesc |-> "", Text |-> "", Clickable |-> "",
       Bounds |-> <<>>],
      [Class |-> "", ContentDesc |-> "OK", Text |-> "", Clickable |-> "true",
       Bounds |-> <<"[", "1", ",", "2", "]">>],
      [Class |-> ButtonClass, ContentDesc |-> "OK", Text |-> "",
       Clickable |-> "true", Bounds |-> FormatBounds(40, 50, 140, 150)],
      [Class |-> TextViewClass, ContentDesc |-> "", Text |-> "OK",
       Clickable |-> "false", Bounds |-> FormatBounds(0, 0, 1, 1)] }

\* the Node with the attributes k and the children f
MakeNode(k, f) ==
    [Class |-> k.Class, ContentDesc |-> k.ContentDesc, Text |-> k.Text,
     Clickable |-> k.Clickable, Bounds |-> k.Bounds, Children |-> f]

RECURSIVE ForestsOf(_, _)

\* the nodes with exactly n nodes in their subtree, attributes from kinds
TreesOf(kinds, n) ==
    { MakeNode(k, f) : k \in kinds, f \in ForestsOf(kinds, n - 1) }

\* the ordered node sequences ([]Node) with exactly n nodes in total
ForestsOf(kinds, n) ==
    IF n = 0 THEN { <<>> }
    ELSE UNION { { <<t>> \o f : t \in TreesOf(kinds, k),
                                 f \in ForestsOf(kinds, n - k) } : k \in 1..n }

Trees(n) == TreesOf(NodeKinds, n)

Forests(n) == ForestsOf(NodeKinds, n)

\* the decoded hierarchies: zero, one or several top-level nodes
Hierarchies ==
    [Rotation : {"0"}, Nodes : UNION { Forests(n) : n \in 0..MaxNodes }]

\* the caller-supplied predicates
PredNames == {"button", "always", "isButton", "underText"}

\* the class and desc arguments ClickNode is called with
ClickClasses == {"", ButtonClass, TextViewClass}

ClickDescs == {"", "OK", "Cancel"}

\* the name of the predicate ClickNode(class, desc) builds
ClickNodeName(class, desc) == "ClickNode(" \o class \o "," \o desc \o ")"

ClickNodeNames ==
    { ClickNodeName(c, d) : c \in ClickClasses, d \in ClickDescs }

\* the arguments behind the name of a ClickNode predicate
ClickNodeArgs(f) ==
    CHOOSE a \in [class : ClickClasses, desc : ClickDescs] :
        ClickNodeName(a.class, a.desc) = f

\* the predicate ClickNode(class, desc) passes to FindNode
ClickNodeFn(class, desc, n) ==
    LET classMatch == class = "" \/ n.Class = class
        descMatch  == desc = "" \/ n.ContentDesc = desc \/ n.Text = desc
    IN  classMatch /\ descMatch

\* the predicates reading the attributes of the parent where they are to
\* read those of the node
PredicateReadsParent(f, n, pn) ==
    CASE f = "button"    -> pn.ContentDesc = "OK" /\ pn.Clickable = "true"
      [] f = "always"    -> TRUE
      [] f = "isButton"  -> pn.Class = ButtonClass
      [] f = "underText" -> pn.Class = TextViewClass /\ pn.Clickable = "true"
      [] f \in ClickNodeNames ->
           ClickNodeFn(ClickNodeArgs(f).class, ClickNodeArgs(f).desc, pn)

\* predicate(n, pn) for the predicate named f
Predicate(f, n, pn) ==
    CASE f = "button"    -> n.ContentDesc = "OK" /\ n.Clickable = "true"
      [] f = "always"    -> TRUE
      [] f = "isButton"  -> n.Class = ButtonClass
      [] f = "underText" -> pn.Class = TextViewClass /\ n.Clickable = "true"
      [] f \in ClickNodeNames ->
           ClickNodeFn(ClickNodeArgs(f).class, ClickNodeArgs(f).desc, n)

(* ---------------------------------------------------------------------- *)
(* Walk                                                                    *)
(* ---------------------------------------------------------------------- *)

RECURSIVE Flatten(_)

\* the concatenation of a sequence of sequences, in order
Flatten(ss) ==
    IF ss = <<>> THEN <<>> ELSE Head(ss) \o Flatten(Tail(ss))

RECURSIVE WalkPassesOwnParent(_, _)

\* Walk handing its own parent argument, not n, to the walks of the children
WalkPassesOwnParent(n, pn) ==
    <<[n |-> n, pn |-> pn]>> \o
    Flatten([i \in DOMAIN n.Children |-> WalkPassesOwnParent(n.Children[i], pn)])

RECURSIVE WalkFirstChildOnly(_, _)

\* Walk leaving the loop over the children after the first child
WalkFirstChildOnly(n, pn) ==
    <<[n |-> n, pn |-> pn]>> \o
    (IF n.Children = <<>> THEN <<>> ELSE WalkFirstChildOnly(n.Children[1], n))

RECURSIVE Walk(_, _)

\* the trace of fn calls Walk(n, pn, fn) makes
Walk(n, pn) ==
    <<[n |-> n, pn |-> pn]>> \o
    Flatten([i \in DOMAIN n.Children |-> Walk(n.Children[i], n)])

(* ---------------------------------------------------------------------- *)
(* Searches                                                                *)
(* ---------------------------------------------------------------------- *)

\* FindAll putting each match in front of the result instead of appending it
FindAllPrepends(root, pRoot, f) ==
    LET calls == Walk(root, pRoot)
        hits  == SelectSeq(calls, LAMBDA c : Predicate(f, c.n, c.pn))
    IN  [out |-> [i \in DOMAIN hits |-> hits[Len(hits) + 1 - i].n], calls |-> calls]

\* FindAll leaving out the matches whose Class is empty
FindAllSkipsEmptyClass(root, pRoot, f) ==
    LET calls == Walk(root, pRoot)
        hits  == SelectSeq(calls, LAMBDA c : Predicate(f, c.n, c.pn) /\ c.n.Class # "")
    IN  [out |-> [i \in DOMAIN hits |-> hits[i].n], calls |-> calls]

\* FindAll(root, pRoot, predicate): out is the returned slice, calls the
\* trace of predicate calls
FindAll(root, pRoot, f) ==
    LET calls == Walk(root, pRoot)
        hits  == SelectSeq(calls, LAMBDA c : Predicate(f, c.n, c.pn))
    IN  [out |-> [i \in DOMAIN hits |-> hits[i].n], calls |-> calls]

\* (x *Xml) FindAll handing each top-level node to FindAll as its own parent
XmlFindAllSelfParent(h, f) ==
    LET rs == [i \in DOMAIN h.Nodes |-> FindAll(h.Nodes[i], h.Nodes[i], f)]
    IN  [out   |-> Flatten([i \in DOMAIN rs |-> rs[i].out]),
         calls |-> Flatten([i \in DOMAIN rs |-> rs[i].calls])]

\* (x *Xml) FindAll(fn)
XmlFindAll(h, f) ==
    LET rs == [i \in DOMAIN h.Nodes |-> FindAll(h.Nodes[i], ZeroNode, f)]
    IN  [out   |-> Flatten([i \in DOMAIN rs |-> rs[i].out]),
         calls |-> Flatten([i \in DOMAIN rs |-> rs[i].calls])]
RECURSIVE XmlFindFromTakesLast(_, _, _, _)

\* the loop of Find returning the last element of the list in place of
\* nodes[0]
XmlFindFromTakesLast(h, f, i, calls) ==
    IF i > Len(h.Nodes)
    THEN [node |-> ZeroNode, err |-> ErrNotFound, calls |-> calls]
    ELSE LET r == FindAll(h.Nodes[i], ZeroNode, f)
         IN  IF Len(r.out) > 0 /\ r.out[Len(r.out)].Class # ""
             THEN [node |-> r.out[Len(r.out)], err |-> Nil,
                   calls |-> calls \o r.calls]
             ELSE XmlFindFromTakesLast(h, f, i + 1, calls \o r.calls)

RECURSIVE XmlFindFromReturnsTopLevel(_, _, _, _)

\* the loop of Find returning the top-level node whose subtree holds the match
XmlFindFromReturnsTopLevel(h, f, i, calls) ==
    IF i > Len(h.Nodes)
    THEN [node |-> ZeroNode, err |-> ErrNotFound, calls |-> calls]
    ELSE LET r == FindAll(h.Nodes[i], ZeroNode, f)
         IN  IF Len(r.out) > 0 /\ r.out[1].Class # ""
             THEN [node |-> h.Nodes[i], err |-> Nil, calls |-> calls \o r.calls]
             ELSE XmlFindFromReturnsTopLevel(h, f, i + 1, calls \o r.calls)


RECURSIVE XmlFindFromNoClassCheck(_, _, _, _)

\* the loop of Find without the test nodes[0].Class != ""
XmlFindFromNoClassCheck(h, f, i, calls) ==
    IF i > Len(h.Nodes)
    THEN [node |-> ZeroNode, err |-> ErrNotFound, calls |-> calls]
    ELSE LET r == FindAll(h.Nodes[i], ZeroNode, f)
         IN  IF Len(r.out) > 0
             THEN [node |-> r.out[1], err |-> Nil, calls |-> calls \o r.calls]
             ELSE XmlFindFromNoClassCheck(h, f, i + 1, calls \o r.calls)

RECURSIVE XmlFindFromFallsThrough(_, _, _, _)

\* the loop of Find taking the first match of the subtree that has a Class
XmlFindFromFallsThrough(h, f, i, calls) ==
    IF i > Len(h.Nodes)
    THEN [node |-> ZeroNode, err |-> ErrNotFound, calls |-> calls]
    ELSE LET r  == FindAll(h.Nodes[i], ZeroNode, f)
             ok == SelectSeq(r.out, LAMBDA m : m.Class # "")
         IN  IF Len(ok) > 0
             THEN [node |-> ok[1], err |-> Nil, calls |-> calls \o r.calls]
             ELSE XmlFindFromFallsThrough(h, f, i + 1, calls \o r.calls)

\* the loop of Find giving up after the top-level node it looks at
XmlFindFromStopsAtFirst(h, f, i, calls) ==
    IF i > Len(h.Nodes)
    THEN [node |-> ZeroNode, err |-> ErrNotFound, calls |-> calls]
    ELSE LET r == FindAll(h.Nodes[i], ZeroNode, f)
         IN  IF Len(r.out) > 0 /\ r.out[1].Class # ""
             THEN [node |-> r.out[1], err |-> Nil, calls |-> calls \o r.calls]
             ELSE [node |-> ZeroNode, err |-> ErrNotFound, calls |-> calls \o r.calls]

RECURSIVE XmlFindFrom(_, _, _, _)

\* the loop of (x *Xml) Find from top-level node i on
XmlFindFrom(h, f, i, calls) ==
    IF i > Len(h.Nodes)
    THEN [node |-> ZeroNode, err |-> ErrNotFound, calls |-> calls]
    ELSE LET r == FindAll(h.Nodes[i], ZeroNode, f)
         IN  IF Len(r.out) > 0 /\ r.out[1].Class # ""
             THEN [node |-> r.out[1], err |-> Nil, calls |-> calls \o r.calls]
             ELSE XmlFindFrom(h, f, i + 1, calls \o r.calls)

\* (x *Xml) Find(fn)
XmlFind(h, f) == XmlFindFrom(h, f, 1, <<>>)

\* (x *Xml) FindButton(name) with name "OK"
XmlFindButton(h) == XmlFind(h, "button")

\* FindNodes without the test len(list) == 0
FindNodesNoEmptyCheck(h, xmlErr, f) ==
    IF xmlErr # Nil
    THEN [nodes |-> <<>>, err |-> xmlErr, calls |-> <<>>]
    ELSE LET list == XmlFindAll(h, f)
         IN  [nodes |-> list.out, err |-> Nil, calls |-> list.calls]

\* (d *Device) FindNodes(fn), where d.XML() returns h with error xmlErr
FindNodes(h, xmlErr, f) ==
    IF xmlErr # Nil
    THEN [nodes |-> <<>>, err |-> xmlErr, calls |-> <<>>]
    ELSE LET list == XmlFindAll(h, f)
         IN  IF Len(list.out) = 0
             THEN [nodes |-> <<>>, err |-> ErrNotFound, calls |-> list.calls]
             ELSE [nodes |-> list.out, err |-> Nil, calls |-> list.calls]

(* ---------------------------------------------------------------------- *)
(* Rectangle parser and center point                                       *)
(* ---------------------------------------------------------------------- *)

\* Rect{}
ZeroRect == [X1 |-> 0, Y1 |-> 0, X2 |-> 0, Y2 |-> 0]

\* fmt.Errorf("bad bounds format: %q", b): the message and the string it
\* quotes
ErrBadBounds(b) == [msg |-> "bad bounds format", arg |-> b]

\* the nil error of ParseBounds
NilErr == [msg |-> Nil, arg |-> <<>>]

\* strconv.ErrRange
ErrRange == "value out of range"

RECURSIVE DigitsEnd(_, _)

\* the index just after the longest run of digits of s that starts at i
DigitsEnd(s, i) ==
    IF i <= Len(s) /\ s[i] \in Digits THEN DigitsEnd(s, i + 1) ELSE i

\* s has character c at index i
At(s, i, c) == i <= Len(s) /\ s[i] = c

\* the match of \[(\d+),(\d+)]\[(\d+),(\d+)] that begins at index i of s, as
\* the whole match followed by the four groups, or <<>> if there is none
MatchAt(s, i) ==
    LET a1 == i + 1
        e1 == DigitsEnd(s, a1)
        a2 == e1 + 1
        e2 == DigitsEnd(s, a2)
        a3 == e2 + 2
        e3 == DigitsEnd(s, a3)
        a4 == e3 + 1
        e4 == DigitsEnd(s, a4)
    IN  IF /\ At(s, i, "[")  /\ e1 > a1 /\ At(s, e1, ",") /\ e2 > a2
           /\ At(s, e2, "]") /\ At(s, e2 + 1, "[")
           /\ e3 > a3 /\ At(s, e3, ",") /\ e4 > a4 /\ At(s, e4, "]")
        THEN << SubSeq(s, i, e4), SubSeq(s, a1, e1 - 1), SubSeq(s, a2, e2 - 1),
                SubSeq(s, a3, e3 - 1), SubSeq(s, a4, e4 - 1) >>
        ELSE <<>>

\* boundsRe.FindStringSubmatch(s): the leftmost match, or <<>> (nil)
FindStringSubmatch(s) ==
    LET starts == { i \in 1..Len(s) : MatchAt(s, i) # <<>> }
    IN  IF starts = {} THEN <<>>
        ELSE MatchAt(s, CHOOSE i \in starts : \A j \in starts : i <= j)

RECURSIVE AtoiFrom(_, _, _)

\* the digits of d from index i on appended to the value acc; past the
\* largest int the result is that largest int and a range error
AtoiFrom(d, i, acc) ==
    IF i > Len(d) THEN [val |-> acc, err |-> Nil]
    ELSE LET c == DigitVal(d[i])
         IN  IF acc > (MaxInt - c) \div 10
             THEN [val |-> MaxInt, err |-> ErrRange]
             ELSE AtoiFrom(d, i + 1, acc * 10 + c)

\* strconv.Atoi on a string of decimal digits
Atoi(d) == AtoiFrom(d, 1, 0)

\* ParseBounds storing the groups in the order x1, x2, y1, y2
ParseBoundsSwapsFields(b) ==
    LET m == FindStringSubmatch(b)
    IN  IF Len(m) # 5
        THEN [rect |-> ZeroRect, err |-> ErrBadBounds(b)]
        ELSE [rect |-> [X1 |-> Atoi(m[2]).val, Y1 |-> Atoi(m[4]).val,
                        X2 |-> Atoi(m[3]).val, Y2 |-> Atoi(m[5]).val],
              err  |-> NilErr]

\* ParseBounds reporting the matched part instead of its argument
ParseBoundsErrorWithoutInput(b) ==
    LET m == FindStringSubmatch(b)
    IN  IF Len(m) # 5
        THEN [rect |-> ZeroRect, err |-> ErrBadBounds(m)]
        ELSE [rect |-> [X1 |-> Atoi(m[2]).val, Y1 |-> Atoi(m[3]).val,
                        X2 |-> Atoi(m[4]).val, Y2 |-> Atoi(m[5]).val],
              err  |-> NilErr]

\* ParseBounds(b); the errors of the four Atoi calls are discarded
ParseBounds(b) ==
    LET rectOf(m) ==
            IF Len(m) # 5
            THEN [rect |-> ZeroRect, err |-> ErrBadBounds(b)]
            ELSE [rect |-> [X1 |-> Atoi(m[2]).val, Y1 |-> Atoi(m[3]).val,
                            X2 |-> Atoi(m[4]).val, Y2 |-> Atoi(m[5]).val],
                  err  |-> NilErr]
    IN  rectOf(FindStringSubmatch(b))

\* the Go quotient a / b for b > 0, which truncates toward zero
Quo(a, b) == IF a >= 0 THEN a \div b ELSE -((-a) \div b)

\* Middle rounding the half up
MiddleRoundsHalfUp(n) ==
    LET r == ParseBounds(n.Bounds)
    IN  IF r.err # NilErr THEN [x |-> 0, y |-> 0]
        ELSE [x |-> Quo(r.rect.X2 - r.rect.X1, 2) + ((r.rect.X2 - r.rect.X1) % 2)
                        + r.rect.X1,
              y |-> Quo(r.rect.Y2 - r.rect.Y1, 2) + ((r.rect.Y2 - r.rect.Y1) % 2)
                        + r.rect.Y1]

\* Middle dividing with the floor instead of truncating
MiddleFloors(n) ==
    LET r == ParseBounds(n.Bounds)
    IN  IF r.err # NilErr THEN [x |-> 0, y |-> 0]
        ELSE [x |-> ((r.rect.X2 - r.rect.X1) \div 2) + r.rect.X1,
              y |-> ((r.rect.Y2 - r.rect.Y1) \div 2) + r.rect.Y1]

\* Middle answering a parse failure with (-1, -1)
MiddleFailsNegative(n) ==
    LET r == ParseBounds(n.Bounds)
    IN  IF r.err # NilErr THEN [x |-> -1, y |-> -1]
        ELSE [x |-> Quo(r.rect.X2 - r.rect.X1, 2) + r.rect.X1,
              y |-> Quo(r.rect.Y2 - r.rect.Y1, 2) + r.rect.Y1]

\* (n *Node) Middle()
Middle(n) ==
    LET center(r) ==
            IF r.err # NilErr THEN [x |-> 0, y |-> 0]
            ELSE [x |-> Quo(r.rect.X2 - r.rect.X1, 2) + r.rect.X1,
                  y |-> Quo(r.rect.Y2 - r.rect.Y1, 2) + r.rect.Y1]
    IN  center(ParseBounds(n.Bounds))

(* ---------------------------------------------------------------------- *)
(* State machine                                                           *)
(* ---------------------------------------------------------------------- *)

VARIABLES
    x,      \* the decoded hierarchy (*Xml)
    op,     \* the last operation called
    fn,     \* the predicate passed to the last search
    start,  \* the (n, pn) arguments of the last Walk
    ret,    \* what the last operation returned
    calls,  \* the visitor / predicate calls the last operation made
    b,      \* the string the last ParseBounds or Middle worked on
    pb,     \* what the last ParseBounds returned
    mid,    \* what the last Middle returned
    dump,   \* what `uiautomator dump` gives the Device call: text and error
    tapOut, \* the error the `input tap` shell command comes back with
    doc,    \* what the last decode (NewXml, d.XML) returned
    taps,   \* the tap commands the last Device call issued
    steps,  \* the steps the last Device call went through
    adb,    \* what the `adb devices` command gives: output and error
    devs,   \* what the last GetDevices returned
    cc      \* the callers that run a search concurrently

\* the state of the Device layer and of the concurrent callers
env == <<dump, tapOut, doc, taps, steps, adb, devs, cc>>

vars == <<x, op, fn, start, ret, calls, b, pb, mid, env>>

\* the value of a Hierarchy before decoding: var h Hierarchy
ZeroHierarchy == [Rotation |-> "", Nodes |-> <<>>]

\* no dump was taken: UiautomatorDump returned ("", nil)
NoDump == [data |-> <<>>, err |-> Nil]

\* nothing was decoded
NoDoc == [isNil |-> TRUE, h |-> ZeroHierarchy, err |-> Nil]

\* `adb devices` was not run
NoAdb == [output |-> <<>>, err |-> Nil]

\* GetDevices was not called
NoDevs == [devices |-> <<>>, err |-> Nil]

\* no Device call, no GetDevices call and no concurrent caller
NoEnv ==
    /\ dump = NoDump
    /\ tapOut = Nil
    /\ doc = NoDoc
    /\ taps = <<>>
    /\ steps = <<>>
    /\ adb = NoAdb
    /\ devs = NoDevs
    /\ cc = <<>>

NoParse == [rect |-> ZeroRect, err |-> NilErr]

NoMid == [x |-> 0, y |-> 0]

\* no ParseBounds and no Middle call has been made
NoGeometry == b = <<>> /\ pb = NoParse /\ mid = NoMid

NoRet == [node |-> ZeroNode, nodes |-> <<>>, err |-> Nil]

NoStart == [n |-> ZeroNode, pn |-> ZeroNode]

RECURSIVE SubNodes(_)

\* every node value of a node sequence, at any depth
SubNodes(forest) ==
    UNION { {forest[i]} \cup SubNodes(forest[i].Children) : i \in DOMAIN forest }

Init ==
    /\ x \in Hierarchies
    /\ op = "none"
    /\ fn = "none"
    /\ start = NoStart
    /\ ret = NoRet
    /\ calls = <<>>
    /\ NoGeometry
    /\ NoEnv

\* a caller runs Walk(n, pn, fn) on a node of the hierarchy
DoWalk ==
    \E n \in SubNodes(x.Nodes) : \E pn \in SubNodes(x.Nodes) \cup {ZeroNode} :
        /\ op' = "Walk"
        /\ fn' = "none"
        /\ start' = [n |-> n, pn |-> pn]
        /\ ret' = NoRet
        /\ calls' = Walk(n, pn)
        /\ b' = <<>>
        /\ pb' = NoParse
        /\ mid' = NoMid
        /\ UNCHANGED <<x, env>>

\* a caller runs x.Find(fn)
DoFind ==
    \E f \in PredNames :
        LET r == XmlFind(x, f)
        IN  /\ op' = "Find"
            /\ fn' = f
            /\ start' = NoStart
            /\ ret' = [node |-> r.node, nodes |-> <<>>, err |-> r.err]
            /\ calls' = r.calls
            /\ b' = <<>>
            /\ pb' = NoParse
            /\ mid' = NoMid
            /\ UNCHANGED <<x, env>>

\* x.FindAll(fn) building its result in the storage of x.Nodes
DoFindAllReusesNodes ==
    \E f \in PredNames :
        LET r == XmlFindAll(x, f)
        IN  /\ op' = "FindAll"
            /\ fn' = f
            /\ start' = NoStart
            /\ ret' = [node |-> ZeroNode, nodes |-> r.out, err |-> Nil]
            /\ calls' = r.calls
            /\ b' = <<>>
            /\ pb' = NoParse
            /\ mid' = NoMid
            /\ x' = [x EXCEPT !.Nodes = r.out]
            /\ UNCHANGED env

\* a caller runs x.FindAll(fn)
DoFindAll ==
    \E f \in PredNames :
        LET r == XmlFindAll(x, f)
        IN  /\ op' = "FindAll"
            /\ fn' = f
            /\ start' = NoStart
            /\ ret' = [node |-> ZeroNode, nodes |-> r.out, err |-> Nil]
            /\ calls' = r.calls
            /\ b' = <<>>
            /\ pb' = NoParse
            /\ mid' = NoMid
            /\ UNCHANGED <<x, env>>

\* a caller runs d.FindNodes(fn) while the screen shows x
DoFindNodes ==
    \E f \in PredNames : \E xmlErr \in {Nil, ErrXML} :
        LET r == FindNodes(x, xmlErr, f)
        IN  /\ op' = "FindNodes"
            /\ fn' = f
            /\ start' = NoStart
            /\ ret' = [node |-> ZeroNode, nodes |-> r.nodes, err |-> r.err]
            /\ calls' = r.calls
            /\ b' = <<>>
            /\ pb' = NoParse
            /\ mid' = NoMid
            /\ UNCHANGED <<x, env>>

\* a caller runs x.FindButton("OK")
DoFindButton ==
    LET r == XmlFindButton(x)
    IN  /\ op' = "FindButton"
        /\ fn' = "button"
        /\ start' = NoStart
        /\ ret' = [node |-> r.node, nodes |-> <<>>, err |-> r.err]
        /\ calls' = r.calls
        /\ b' = <<>>
        /\ pb' = NoParse
        /\ mid' = NoMid
        /\ UNCHANGED <<x, env>>

\* a caller whose Find or FindButton found a node takes its center:
\* button, _ := xml.FindButton(...); x, y := button.Middle()
DoMiddleOfFound ==
    /\ op \in {"Find", "FindButton"}
    /\ ret.err = Nil
    /\ op' = "Middle"
    /\ b' = ret.node.Bounds
    /\ pb' = NoParse
    /\ mid' = Middle(ret.node)
    /\ UNCHANGED <<x, fn, start, ret, calls, env>>

Next ==
    \/ DoWalk
    \/ DoFind
    \/ DoFindAll
    \/ DoFindNodes
    \/ DoFindButton
    \/ DoMiddleOfFound

Spec == Init /\ [][Next]_vars

TypeOK ==
    /\ x \in Hierarchies
    /\ op \in {"none", "Walk", "Find", "FindAll", "FindNodes", "FindButton",
               "Middle", "ParseBounds"}
    /\ fn \in PredNames \cup {"none"}
    /\ ret.err \in {Nil, ErrNotFound, ErrXML}
    /\ pb.err = NilErr \/ pb.err = ErrBadBounds(b)

(* ---------------------------------------------------------------------- *)
(* The rectangle parser and the center point on their own: the calls are   *)
(* pure functions of a bounds string b, which is drawn from BoundsInputs.  *)
(* ---------------------------------------------------------------------- *)

\* the coordinates that are formatted
CoordValues == (0..MaxCoord) \cup {140, MaxInt}

\* the bounds strings of every box with corners in CoordValues, by corners
Formatted ==
    [t \in CoordValues \X CoordValues \X CoordValues \X CoordValues |->
        FormatBounds(t[1], t[2], t[3], t[4])]

\* digit groups that %d does not produce: leading zeros, and values past
\* the largest int
OddGroups ==
    { <<"0", "0", "7">>,
      <<"2", "1", "4", "7", "4", "8", "3", "6", "4", "8">>,
      <<"9", "9", "9", "9", "9", "9", "9", "9", "9", "9", "9">> }

GroupTexts == OddGroups \cup {Itoa(0), Itoa(12)}

\* text around a bounds string
Junk ==
    { <<>>, <<"x">>, <<" ">>, <<"-">>, <<"[">>, <<"9">>,
      <<"[", "1", ",", "2", "]">>,
      <<"[", "1", ",", "2", "]", "[", "3">>,
      FormatBounds(5, 6, 7, 8) }

\* characters of arbitrary bounds strings
FreeChars == {"[", "]", ",", "1", "-", " "}

\* characters put into, or in the place of, a character of a bounds string
EditChars == {" ", "-", "+", "x", ",", "[", "]", "5"}

\* s with one character removed, replaced or inserted
Edits(s) ==
    { SubSeq(s, 1, i - 1) \o SubSeq(s, i + 1, Len(s)) : i \in 1..Len(s) }
    \cup { SubSeq(s, 1, i - 1) \o <<c>> \o SubSeq(s, i + 1, Len(s)) :
              i \in 1..Len(s), c \in EditChars }
    \cup { SubSeq(s, 1, i) \o <<c>> \o SubSeq(s, i + 1, Len(s)) :
              i \in 0..Len(s), c \in EditChars }

\* the strings handed to ParseBounds, and the Bounds of the nodes handed to
\* Middle
BoundsInputs ==
    { Formatted[t] : t \in DOMAIN Formatted }
    \cup { BoundsText(g1, g2, g3, g4) : g1, g2, g3, g4 \in GroupTexts }
    \cup { p \o f \o q : p, q \in Junk,
                          f \in {FormatBounds(1, 2, 3, 4), FormatBounds(10, 20, 30, 40)} }
    \cup Edits(FormatBounds(1, 2, 3, 4)) \cup Edits(FormatBounds(10, 20, 30, 40))
    \cup UNION { [1..n -> FreeChars] : n \in 0..MaxFreeLen }
    \cup { <<"[", "1", ",", "2", "]">>, <<"[", "1", ",", "2", "]", "[", "3", "]">>,
           FormatBounds(100, 200, 300, 400), FormatBounds(40, 50, 140, 150) }

InitGeo ==
    /\ x = [Rotation |-> "0", Nodes |-> <<>>]
    /\ op = "none"
    /\ fn = "none"
    /\ start = NoStart
    /\ ret = NoRet
    /\ calls = <<>>
    /\ b \in BoundsInputs
    /\ pb = NoParse
    /\ mid = NoMid
    /\ NoEnv

\* a caller runs ParseBounds(b)
DoParseBounds ==
    /\ op' = "ParseBounds"
    /\ pb' = ParseBounds(b)
    /\ mid' = NoMid
    /\ UNCHANGED <<x, fn, start, ret, calls, b, env>>

\* a caller runs n.Middle() on a node whose Bounds is b
DoMiddle ==
    /\ op' = "Middle"
    /\ pb' = NoParse
    /\ mid' = Middle([ZeroNode EXCEPT !.Class = ButtonClass, !.Bounds = b])
    /\ UNCHANGED <<x, fn, start, ret, calls, b, env>>

NextGeo ==
    \/ DoParseBounds
    \/ DoMiddle

SpecGeo == InitGeo /\ [][NextGeo]_vars

(* ---------------------------------------------------------------------- *)
(* The decoder: NewXml and ParseHierarchy run an xml.Decoder over the dump *)
(* and fill a Hierarchy through the struct tags of Hierarchy and Node.     *)
(* The dump text is modelled as the sequence of the tokens the decoder     *)
(* reads from it: start tags with their attributes in source order, end    *)
(* tags, and stretches of other text.                                      *)
(* ---------------------------------------------------------------------- *)

\* io.EOF: the text ends before any element starts
ErrEOF == "EOF"

\* xml.SyntaxError: an end tag that closes nothing or the wrong element, or
\* the text ending inside an element
ErrSyntax == "XML syntax error"

\* xml.UnmarshalError: the outer element is not <hierarchy>
ErrExpectedHierarchy == "expected element type <hierarchy>"

\* one attribute k="v" of a start tag
Attr(k, v) == [k |-> k, v |-> v]

StartTok(name, attrs) == [t |-> "start", name |-> name, attrs |-> attrs]

EndTok(name) == [t |-> "end", name |-> name, attrs |-> <<>>]

\* character data, a comment or the <?xml ...?> line
TextTok == [t |-> "text", name |-> "", attrs |-> <<>>]

\* the attributes xml:"...,attr" tags of Node name, as far as the model
\* carries them
NodeAttrs == {"class", "content-desc", "text", "clickable", "bounds"}

RECURSIVE AttrValueStopsAtUnknown(_, _, _)

\* the copying of attributes giving up at the first attribute Node does not
\* name
AttrValueStopsAtUnknown(attrs, k, zero) ==
    IF attrs = <<>> \/ Head(attrs).k \notin NodeAttrs \cup {"rotation"}
    THEN zero
    ELSE IF Head(attrs).k = k
         THEN AttrValueStopsAtUnknown(Tail(attrs), k, Head(attrs).v)
         ELSE AttrValueStopsAtUnknown(Tail(attrs), k, zero)

RECURSIVE AttrValue(_, _, _)

\* the value of a string field tagged xml:"k,attr" after the attributes of
\* the start tag were copied in source order; zero is its value before
AttrValue(attrs, k, zero) ==
    IF attrs = <<>> THEN zero
    ELSE IF Head(attrs).k = k
         THEN AttrValue(Tail(attrs), k, Head(attrs).v)
         ELSE AttrValue(Tail(attrs), k, zero)

\* the Node a <node> start tag and its decoded children make
NodeOf(tk, children) ==
    [Class       |-> AttrValue(tk.attrs, "class", ""),
     ContentDesc |-> AttrValue(tk.attrs, "content-desc", ""),
     Text        |-> AttrValue(tk.attrs, "text", ""),
     Clickable   |-> AttrValue(tk.attrs, "clickable", ""),
     Bounds      |-> AttrValue(tk.attrs, "bounds", <<>>),
     Children    |-> children]

RECURSIVE Skip(_, _, _)

\* (d *Decoder) Skip after the start tag of an element no field names: reads
\* up to the matching end tag, from token i on
Skip(toks, i, name) ==
    IF i > Len(toks) THEN [next |-> i, err |-> ErrSyntax]
    ELSE CASE toks[i].t = "text" -> Skip(toks, i + 1, name)
           [] toks[i].t = "end" ->
                IF toks[i].name = name
                THEN [next |-> i + 1, err |-> Nil]
                ELSE [next |-> i, err |-> ErrSyntax]
           [] toks[i].t = "start" ->
                LET s == Skip(toks, i + 1, toks[i].name)
                IN  IF s.err # Nil THEN s ELSE Skip(toks, s.next, name)

RECURSIVE UnmarshalChildrenPrepends(_, _, _, _)

\* the content of an element decoded with each <node> put in front of the
\* slice
UnmarshalChildrenPrepends(toks, i, name, acc) ==
    IF i > Len(toks) THEN [nodes |-> acc, next |-> i, err |-> ErrSyntax]
    ELSE CASE toks[i].t = "text" ->
                UnmarshalChildrenPrepends(toks, i + 1, name, acc)
           [] toks[i].t = "end" ->
                IF toks[i].name = name
                THEN [nodes |-> acc, next |-> i + 1, err |-> Nil]
                ELSE [nodes |-> acc, next |-> i, err |-> ErrSyntax]
           [] toks[i].t = "start" /\ toks[i].name = "node" ->
                LET c == UnmarshalChildrenPrepends(toks, i + 1, "node", <<>>)
                IN  IF c.err # Nil
                    THEN [nodes |-> acc, next |-> c.next, err |-> c.err]
                    ELSE UnmarshalChildrenPrepends(toks, c.next, name,
                             <<NodeOf(toks[i], c.nodes)>> \o acc)
           [] toks[i].t = "start" /\ toks[i].name # "node" ->
                LET s == Skip(toks, i + 1, toks[i].name)
                IN  IF s.err # Nil
                    THEN [nodes |-> acc, next |-> s.next, err |-> s.err]
                    ELSE UnmarshalChildrenPrepends(toks, s.next, name, acc)

RECURSIVE UnmarshalChildren(_, _, _, _)

\* the content of the element `name`, read from token i on, decoded into a
\* []Node field tagged xml:"node": each <node> element is decoded and
\* appended, any other element is skipped; on an error the element being
\* decoded is taken off the slice again
UnmarshalChildren(toks, i, name, acc) ==
    IF i > Len(toks) THEN [nodes |-> acc, next |-> i, err |-> ErrSyntax]
    ELSE CASE toks[i].t = "text" -> UnmarshalChildren(toks, i + 1, name, acc)
           [] toks[i].t = "end" ->
                IF toks[i].name = name
                THEN [nodes |-> acc, next |-> i + 1, err |-> Nil]
                ELSE [nodes |-> acc, next |-> i, err |-> ErrSyntax]
           [] toks[i].t = "start" /\ toks[i].name = "node" ->
                LET c == UnmarshalChildren(toks, i + 1, "node", <<>>)
                IN  IF c.err # Nil
                    THEN [nodes |-> acc, next |-> c.next, err |-> c.err]
                    ELSE UnmarshalChildren(toks, c.next, name,
                             Append(acc, NodeOf(toks[i], c.nodes)))
           [] toks[i].t = "start" /\ toks[i].name # "node" ->
                LET s == Skip(toks, i + 1, toks[i].name)
                IN  IF s.err # Nil
                    THEN [nodes |-> acc, next |-> s.next, err |-> s.err]
                    ELSE UnmarshalChildren(toks, s.next, name, acc)

RECURSIVE FirstTag(_, _)

\* the first token from i on that is a tag; Len(toks) + 1 when there is none
FirstTag(toks, i) ==
    IF i > Len(toks) \/ toks[i].t # "text" THEN i ELSE FirstTag(toks, i + 1)

\* dec.Decode(&h): the first element of the text decoded into h; what is
\* left of h on an error is what was decoded up to it
Decode(toks) ==
    LET r == FirstTag(toks, 1)
    IN  IF r > Len(toks) THEN [h |-> ZeroHierarchy, err |-> ErrEOF]
        ELSE IF toks[r].t = "end" THEN [h |-> ZeroHierarchy, err |-> ErrSyntax]
        ELSE IF toks[r].name # "hierarchy"
             THEN [h |-> ZeroHierarchy, err |-> ErrExpectedHierarchy]
        ELSE LET c == UnmarshalChildren(toks, r + 1, "hierarchy", <<>>)
             IN  [h   |-> [Rotation |-> AttrValue(toks[r].attrs, "rotation", ""),
                           Nodes    |-> c.nodes],
                  err |-> c.err]

\* ParseHierarchy(r)
ParseHierarchy(toks) ==
    LET r == Decode(toks)
    IN  IF r.err # Nil
        THEN [isNil |-> TRUE, h |-> ZeroHierarchy, err |-> r.err]
        ELSE [isNil |-> FALSE, h |-> r.h, err |-> Nil]

\* ParseHierarchyFromString(s)
ParseHierarchyFromString(toks) == ParseHierarchy(toks)

\* NewXml wrapping what the decoder filled in although it failed
NewXmlKeepsPartial(toks) ==
    LET r == Decode(toks)
    IN  [isNil |-> FALSE, h |-> r.h, err |-> r.err]

\* NewXml(xmlStr)
NewXml(toks) ==
    LET r == ParseHierarchyFromString(toks)
    IN  IF r.err # Nil
        THEN [isNil |-> TRUE, h |-> ZeroHierarchy, err |-> r.err]
        ELSE [isNil |-> FALSE, h |-> r.h, err |-> Nil]

(* ---------------------------------------------------------------------- *)
(* The dump texts: what `uiautomator dump /dev/tty` prints for a screen,   *)
(* in several styles of writing, and damaged texts.                        *)
(* ---------------------------------------------------------------------- *)

\* how a dump is written: attributes with an empty value left out, an
\* attribute Node does not name in front of every start tag, an element that
\* is no <node> inside every <node>, other text around and between elements
DumpStyles ==
    { st \in [omit : BOOLEAN, extraAttr : BOOLEAN, extraElem : BOOLEAN,
              text : BOOLEAN] :
        \/ Cardinality({ f \in {"omit", "extraAttr", "extraElem", "text"} :
                           st[f] }) <= 1
        \/ st.omit /\ st.extraAttr /\ st.extraElem /\ st.text }

PlainStyle ==
    [omit |-> FALSE, extraAttr |-> FALSE, extraElem |-> FALSE, text |-> FALSE]

\* the attribute holds the empty string
IsEmptyAttr(a) == IF a.k = "bounds" THEN a.v = <<>> ELSE a.v = ""

\* the attributes of the start tag of node n
AttrsOf(n, st) ==
    LET all  == << Attr("text", n.Text), Attr("class", n.Class),
                   Attr("content-desc", n.ContentDesc),
                   Attr("clickable", n.Clickable), Attr("bounds", n.Bounds) >>
        kept == IF st.omit THEN SelectSeq(all, LAMBDA a : ~IsEmptyAttr(a))
                ELSE all
    IN  IF st.extraAttr THEN <<Attr("drawing-order", "1")>> \o kept ELSE kept

\* an element that is no <node>, with a <node> inside it
ExtraElement ==
    << StartTok("extra", <<>>),
       StartTok("node", <<Attr("class", ButtonClass)>>), EndTok("node"),
       EndTok("extra") >>

RECURSIVE EncodeNodes(_, _)

\* the elements of a node sequence, children nested in their parent
EncodeNodes(forest, st) ==
    IF forest = <<>> THEN <<>>
    ELSE LET n == Head(forest)
         IN  <<StartTok("node", AttrsOf(n, st))>>
             \o (IF st.extraElem THEN ExtraElement ELSE <<>>)
             \o EncodeNodes(n.Children, st)
             \o (IF st.text THEN <<TextTok>> ELSE <<>>)
             \o <<EndTok("node")>>
             \o EncodeNodes(Tail(forest), st)

\* the dump of the screen h
EncodeDump(h, st) ==
    (IF st.text THEN <<TextTok>> ELSE <<>>)
    \o <<StartTok("hierarchy", <<Attr("rotation", h.Rotation)>>)>>
    \o EncodeNodes(h.Nodes, st)
    \o <<EndTok("hierarchy")>>
    \o (IF st.text THEN <<TextTok>> ELSE <<>>)

\* the texts a dump d turns into when it is cut short, when one of its end
\* tags names another element, when its outer element is not <hierarchy>
\* and when it starts with an end tag
Damaged(d) ==
    { SubSeq(d, 1, k) : k \in 0..(Len(d) - 1) }
    \cup { [d EXCEPT ![j] = EndTok("other")] :
             j \in { i \in DOMAIN d : d[i].t = "end" } }
    \cup { [d EXCEPT ![1] = StartTok("node", d[1].attrs)],
           <<EndTok("node")>> \o d }

\* the attribute sets of the nodes of the screens that are written out in
\* every style: one leaves Class and Text empty, one leaves only Text empty
DumpKinds == { k \in NodeKinds : k.ContentDesc = "OK" }

\* these screens
DumpScreens ==
    [Rotation : {"0"},
     Nodes : UNION { ForestsOf(DumpKinds, n) : n \in 0..MaxNodes }]

\* the dump texts the decoder is run on: the screens hs in every style, and
\* what damage makes of them
DumpInputs(hs) ==
    UNION { { EncodeDump(h, st) : st \in DumpStyles }
            \cup Damaged(EncodeDump(h, PlainStyle)) : h \in hs }

\* the state of the tree operations and of the rectangle parser
core == <<x, fn, start, ret, calls, b, pb, mid>>

InitDecode ==
    /\ x = [Rotation |-> "0", Nodes |-> <<>>]
    /\ op = "none"
    /\ fn = "none"
    /\ start = NoStart
    /\ ret = NoRet
    /\ calls = <<>>
    /\ NoGeometry
    /\ dump \in [data : DumpInputs(DumpScreens), err : {Nil}]
    /\ tapOut = Nil
    /\ doc = NoDoc
    /\ taps = <<>>
    /\ steps = <<>>
    /\ adb = NoAdb
    /\ devs = NoDevs
    /\ cc = <<>>

\* a caller runs ParseHierarchy(strings.NewReader(text)) on the dump text
DoParseHierarchy ==
    /\ op' = "ParseHierarchy"
    /\ doc' = ParseHierarchy(dump.data)
    /\ UNCHANGED <<core, dump, tapOut, taps, steps, adb, devs, cc>>

\* a caller runs NewXml(text) on the dump text
DoNewXml ==
    /\ op' = "NewXml"
    /\ doc' = NewXml(dump.data)
    /\ UNCHANGED <<core, dump, tapOut, taps, steps, adb, devs, cc>>

NextDecode ==
    \/ DoParseHierarchy
    \/ DoNewXml

SpecDecode == InitDecode /\ [][NextDecode]_vars

(* ---------------------------------------------------------------------- *)
(* The Device layer: XML, FindNode, FindNodes, FindButton, ClickButton,    *)
(* ClickNode and ClickNodeBy.  Each call takes a fresh dump of the screen, *)
(* so a call is a function of what the dump command and the tap command   *)
(* give back; both are drawn in the initial state.                         *)
(* ---------------------------------------------------------------------- *)

\* largest number of nodes on a screen of the Device layer
MaxScreenNodes == 2

\* the error of execCommand when `exec-out uiautomator dump` fails
ErrDump == "exec-out failed"

\* the error of d.Shell when `input tap` fails
ErrShell == "shell failed"

\* the attribute sets of the nodes on the screens: those of NodeKinds that
\* have a ContentDesc or a Text, a button without Bounds and a text view
\* whose Bounds lacks its end
ScreenKinds ==
    { k \in NodeKinds : k.ContentDesc = "OK" \/ k.Text = "OK" } \cup
    { [Class |-> ButtonClass, ContentDesc |-> "OK", Text |-> "",
       Clickable |-> "true", Bounds |-> <<>>],
      [Class |-> TextViewClass, ContentDesc |-> "", Text |-> "OK",
       Clickable |-> "true", Bounds |-> <<"[", "1", ",", "2", "]", "[", "3">>] }

\* the screens a call can meet
Screens ==
    [Rotation : {"0"},
     Nodes : UNION { ForestsOf(ScreenKinds, n) : n \in 0..MaxScreenNodes }]

\* what UiautomatorDump returns for screen h: the dump followed by the line
\* "UI hierchary dumped to: /dev/tty"
ScreenText(h) == EncodeDump(h, PlainStyle) \o <<TextTok>>

\* what UiautomatorDump can return: the text of a screen, a text that stops
\* before the end tag of the outer element, a text whose outer element is
\* closed by another end tag, or the error of the command
ScreenDumps(hs) ==
    UNION { { [data |-> ScreenText(h), err |-> Nil],
              [data |-> SubSeq(ScreenText(h), 1, Len(ScreenText(h)) - 2),
               err |-> Nil],
              [data |-> [ScreenText(h) EXCEPT ![Len(ScreenText(h)) - 1] =
                                                  EndTok("node")],
               err |-> Nil] } : h \in hs }
    \cup { [data |-> <<>>, err |-> ErrDump] }

\* (d *Device) XML(): the dump, then the decode
DeviceXML(dmp) ==
    IF dmp.err # Nil
    THEN [doc   |-> [isNil |-> TRUE, h |-> ZeroHierarchy, err |-> dmp.err],
          steps |-> <<"dump">>]
    ELSE [doc |-> NewXml(dmp.data), steps |-> <<"dump", "decode">>]

\* (d *Device) FindNode(fn)
DeviceFindNode(dmp, f) ==
    LET xml == DeviceXML(dmp)
    IN  IF xml.doc.err # Nil
        THEN [node |-> ZeroNode, err |-> xml.doc.err, calls |-> <<>>,
              doc |-> xml.doc, steps |-> xml.steps]
        ELSE LET r == XmlFind(xml.doc.h, f)
             IN  [node |-> r.node, err |-> r.err, calls |-> r.calls,
                  doc |-> xml.doc, steps |-> Append(xml.steps, "search")]

\* (d *Device) FindNodes(fn)
DeviceFindNodes(dmp, f) ==
    LET xml == DeviceXML(dmp)
        r   == FindNodes(xml.doc.h, xml.doc.err, f)
    IN  [nodes |-> r.nodes, err |-> r.err, calls |-> r.calls, doc |-> xml.doc,
         steps |-> IF xml.doc.err # Nil THEN xml.steps
                   ELSE Append(xml.steps, "search")]

\* (d *Device) FindButton(name) with name "OK"
DeviceFindButton(dmp) == DeviceFindNode(dmp, "button")

\* (d *Device) Tap(x, y): the command `input tap x y` and its error
Tap(m, out) == [cmds |-> <<[x |-> m.x, y |-> m.y]>>, err |-> out]

\* ClickNodeBy returning a bounds error, without a tap, for a node whose
\* Bounds does not parse
ClickNodeByChecksBounds(node, out) ==
    IF ParseBounds(node.Bounds).err # NilErr
    THEN [cmds |-> <<>>, err |-> ParseBounds(node.Bounds).err.msg]
    ELSE Tap(Middle(node), out)

\* (d *Device) ClickNodeBy(node)
ClickNodeBy(node, out) == Tap(Middle(node), out)

\* what a click returns after the search r: the error of the search and no
\* tap, or one tap at the center of the found node and the error of the tap
TapFound(r, out) ==
    IF r.err # Nil
    THEN [err |-> r.err, taps |-> <<>>, steps |-> r.steps, node |-> r.node,
          calls |-> r.calls, doc |-> r.doc]
    ELSE LET t == Tap(Middle(r.node), out)
         IN  [err |-> t.err, taps |-> t.cmds, steps |-> Append(r.steps, "tap"),
              node |-> r.node, calls |-> r.calls, doc |-> r.doc]

\* (d *Device) ClickButton(name) with name "OK"
ClickButton(dmp, out) == TapFound(DeviceFindButton(dmp), out)

\* ClickNode going on to the tap when FindNode returned an error
ClickNodeTapsOnError(dmp, class, desc, out) ==
    LET r == DeviceFindNode(dmp, ClickNodeName(class, desc))
        t == Tap(Middle(r.node), out)
    IN  [err |-> t.err, taps |-> t.cmds, steps |-> Append(r.steps, "tap"),
         node |-> r.node, calls |-> r.calls, doc |-> r.doc]

\* (d *Device) ClickNode(class, desc)
ClickNode(dmp, class, desc, out) ==
    TapFound(DeviceFindNode(dmp, ClickNodeName(class, desc)), out)

InitDevice ==
    /\ x = [Rotation |-> "0", Nodes |-> <<>>]
    /\ op = "none"
    /\ fn = "none"
    /\ start = NoStart
    /\ ret = NoRet
    /\ calls = <<>>
    /\ NoGeometry
    /\ dump \in ScreenDumps(Screens)
    /\ tapOut \in {Nil, ErrShell}
    /\ doc = NoDoc
    /\ taps = <<>>
    /\ steps = <<>>
    /\ adb = NoAdb
    /\ devs = NoDevs
    /\ cc = <<>>

\* what no action of the Device layer changes
fixed == <<x, start, b, pb, mid, dump, tapOut, adb, devs, cc>>

\* the predicates the callers of FindNode and FindNodes pass
DevicePreds == {"button", "always"}

\* a caller runs d.XML()
DoDeviceXML ==
    /\ op = "none"
    /\ \E r \in {DeviceXML(dump)} :
           /\ op' = "XML"
           /\ fn' = "none"
           /\ ret' = [node |-> ZeroNode, nodes |-> <<>>, err |-> r.doc.err]
           /\ calls' = <<>>
           /\ doc' = r.doc
           /\ taps' = <<>>
           /\ steps' = r.steps
    /\ UNCHANGED fixed

\* a caller runs d.FindNode(fn)
DoDeviceFindNode ==
    /\ op = "none"
    /\ \E f \in DevicePreds :
        \E r \in {DeviceFindNode(dump, f)} :
            /\ op' = "FindNode"
            /\ fn' = f
            /\ ret' = [node |-> r.node, nodes |-> <<>>, err |-> r.err]
            /\ calls' = r.calls
            /\ doc' = r.doc
            /\ taps' = <<>>
            /\ steps' = r.steps
    /\ UNCHANGED fixed

\* a caller runs d.FindNodes(fn)
DoDeviceFindNodes ==
    /\ op = "none"
    /\ \E f \in DevicePreds :
        \E r \in {DeviceFindNodes(dump, f)} :
            /\ op' = "FindNodes"
            /\ fn' = f
            /\ ret' = [node |-> ZeroNode, nodes |-> r.nodes, err |-> r.err]
            /\ calls' = r.calls
            /\ doc' = r.doc
            /\ taps' = <<>>
            /\ steps' = r.steps
    /\ UNCHANGED fixed

\* a caller runs d.ClickButton("OK")
DoClickButton ==
    /\ op = "none"
    /\ \E r \in {ClickButton(dump, tapOut)} :
           /\ op' = "ClickButton"
           /\ fn' = "button"
           /\ ret' = [node |-> r.node, nodes |-> <<>>, err |-> r.err]
           /\ calls' = r.calls
           /\ doc' = r.doc
           /\ taps' = r.taps
           /\ steps' = r.steps
    /\ UNCHANGED fixed

\* a caller runs d.ClickNode(class, desc)
DoClickNode ==
    /\ op = "none"
    /\ \E class \in ClickClasses : \E desc \in ClickDescs :
        \E r \in {ClickNode(dump, class, desc, tapOut)} :
            /\ op' = "ClickNode"
            /\ fn' = ClickNodeName(class, desc)
            /\ ret' = [node |-> r.node, nodes |-> <<>>, err |-> r.err]
            /\ calls' = r.calls
            /\ doc' = r.doc
            /\ taps' = r.taps
            /\ steps' = r.steps
    /\ UNCHANGED fixed

\* a caller runs d.ClickNodeBy(node) with a node it holds
DoClickNodeBy ==
    /\ op = "none"
    /\ \E k \in ScreenKinds :
        \E r \in {ClickNodeBy(MakeNode(k, <<>>), tapOut)} :
            /\ op' = "ClickNodeBy"
            /\ fn' = "none"
            /\ ret' = [node |-> MakeNode(k, <<>>), nodes |-> <<>>, err |-> r.err]
            /\ calls' = <<>>
            /\ doc' = NoDoc
            /\ taps' = r.cmds
            /\ steps' = <<"tap">>
    /\ UNCHANGED fixed

NextDevice ==
    \/ DoDeviceXML
    \/ DoDeviceFindNode
    \/ DoDeviceFindNodes
    \/ DoClickButton
    \/ DoClickNode
    \/ DoClickNodeBy

SpecDevice == InitDevice /\ [][NextDevice]_vars

(* ---------------------------------------------------------------------- *)
(* GetDevices: the serial numbers in the output of `adb devices`.  The     *)
(* output is modelled as the sequence of its characters.                   *)
(* ---------------------------------------------------------------------- *)

\* largest number of lines after the first line of the output
MaxLines == 2

\* fmt.Errorf("failed to get devices: %w", err)
ErrGetDevices == "failed to get devices"

\* the error of cmd.CombinedOutput()
ErrExec == "exec failed"

Header ==
    << "L", "i", "s", "t", " ", "o", "f", " ", "d", "e", "v", "i", "c", "e",
       "s", " ", "a", "t", "t", "a", "c", "h", "e", "d" >>

DeviceWord == <<"d", "e", "v", "i", "c", "e">>

OfflineWord == <<"o", "f", "f", "l", "i", "n", "e">>

UnauthorizedWord ==
    <<"u", "n", "a", "u", "t", "h", "o", "r", "i", "z", "e", "d">>

SerialA == <<"A", "1">>

SerialB == <<"B", "2">>

\* the lines `adb devices` prints after its first line, and lines that
\* differ from them in spacing, in the number of fields or in a field
DeviceLines ==
    { SerialA \o <<"\t">> \o DeviceWord,
      SerialB \o <<"\t">> \o DeviceWord,
      SerialB \o <<"\t">> \o OfflineWord,
      SerialA \o <<"\t">> \o UnauthorizedWord,
      <<>>,
      <<" ", "\t">>,
      DeviceWord,
      <<" ">> \o SerialA \o <<" ", " ">> \o DeviceWord \o <<" ", "\r">>,
      SerialA \o <<"\t">> \o DeviceWord \o <<" ">> \o SerialB,
      DeviceWord \o <<"\t">> \o SerialA,
      SerialA \o <<"\t">> \o DeviceWord \o <<"s">> }

RECURSIVE LineSeqs(_)

\* the sequences of exactly n lines
LineSeqs(n) ==
    IF n = 0 THEN { <<>> }
    ELSE { Append(ls, l) : ls \in LineSeqs(n - 1), l \in DeviceLines }

RECURSIVE JoinLines(_)

\* the lines with a line feed between them
JoinLines(ls) ==
    IF Len(ls) = 1 THEN ls[1]
    ELSE ls[1] \o <<"\n">> \o JoinLines(Tail(ls))

\* the outputs of the command: a first line, which is the header or already
\* a device, up to n further lines, and possibly a final line feed
AdbOutputs(n) ==
    { JoinLines(<<first>> \o ls) \o tail :
        first \in {Header, SerialA \o <<"\t">> \o DeviceWord},
        ls \in UNION { LineSeqs(k) : k \in 0..n },
        tail \in {<<>>, <<"\n">>} }

\* unicode.IsSpace on the characters of the output
IsSpace(c) == c \in {" ", "\t", "\n", "\r"}

RECURSIVE Split(_, _)

\* strings.Split(s, sep) for a one-character sep: cur is the piece being read
Split(s, cur) ==
    IF s = <<>> THEN <<cur>>
    ELSE IF Head(s) = "\n" THEN <<cur>> \o Split(Tail(s), <<>>)
         ELSE Split(Tail(s), Append(cur, Head(s)))

RECURSIVE TrimLeft(_)

TrimLeft(s) ==
    IF s # <<>> /\ IsSpace(Head(s)) THEN TrimLeft(Tail(s)) ELSE s

RECURSIVE TrimRight(_)

TrimRight(s) ==
    IF s # <<>> /\ IsSpace(s[Len(s)])
    THEN TrimRight(SubSeq(s, 1, Len(s) - 1))
    ELSE s

\* strings.TrimSpace(s)
TrimSpace(s) == TrimRight(TrimLeft(s))

RECURSIVE Fields(_, _)

\* strings.Fields(s): the pieces of s between runs of white space; cur is
\* the field being read
Fields(s, cur) ==
    IF s = <<>> THEN (IF cur = <<>> THEN <<>> ELSE <<cur>>)
    ELSE IF IsSpace(Head(s))
         THEN (IF cur = <<>> THEN <<>> ELSE <<cur>>) \o Fields(Tail(s), <<>>)
         ELSE Fields(Tail(s), Append(cur, Head(s)))

RECURSIVE DevicesFromKeepsFirstLine(_, _, _)

\* the loop of GetDevices without the test i == 0
DevicesFromKeepsFirstLine(lines, i, devices) ==
    IF i >= Len(lines) THEN devices
    ELSE LET line  == lines[i + 1]
             parts == Fields(line, <<>>)
         IN  IF TrimSpace(line) = <<>>
             THEN DevicesFromKeepsFirstLine(lines, i + 1, devices)
             ELSE IF Len(parts) >= 2 /\ parts[2] = DeviceWord
                  THEN DevicesFromKeepsFirstLine(lines, i + 1,
                                                 Append(devices, parts[1]))
                  ELSE DevicesFromKeepsFirstLine(lines, i + 1, devices)

RECURSIVE DevicesFrom(_, _, _)

\* the loop of GetDevices over the lines, from the line of index i on (the
\* first line has index 0)
DevicesFrom(lines, i, devices) ==
    IF i >= Len(lines) THEN devices
    ELSE LET line  == lines[i + 1]
             parts == Fields(line, <<>>)
         IN  IF i = 0 \/ TrimSpace(line) = <<>>
             THEN DevicesFrom(lines, i + 1, devices)
             ELSE IF Len(parts) >= 2 /\ parts[2] = DeviceWord
                  THEN DevicesFrom(lines, i + 1, Append(devices, parts[1]))
                  ELSE DevicesFrom(lines, i + 1, devices)

\* GetDevices(), where the command gives cmd.output and cmd.err
GetDevices(cmd) ==
    IF cmd.err # Nil
    THEN [devices |-> <<>>, err |-> ErrGetDevices]
    ELSE [devices |-> DevicesFrom(Split(cmd.output, <<>>), 0, <<>>),
          err |-> Nil]

InitAdb ==
    /\ x = [Rotation |-> "0", Nodes |-> <<>>]
    /\ op = "none"
    /\ fn = "none"
    /\ start = NoStart
    /\ ret = NoRet
    /\ calls = <<>>
    /\ NoGeometry
    /\ dump = NoDump
    /\ tapOut = Nil
    /\ doc = NoDoc
    /\ taps = <<>>
    /\ steps = <<>>
    /\ adb \in [output : AdbOutputs(MaxLines), err : {Nil}]
             \cup {[output |-> <<>>, err |-> ErrExec]}
    /\ devs = NoDevs
    /\ cc = <<>>

\* a caller runs GetDevices()
DoGetDevices ==
    /\ op' = "GetDevices"
    /\ devs' = GetDevices(adb)
    /\ UNCHANGED <<core, dump, tapOut, doc, taps, steps, adb, cc>>

NextAdb == DoGetDevices

SpecAdb == InitAdb /\ [][NextAdb]_vars

(* ---------------------------------------------------------------------- *)
(* Concurrent callers: two goroutines call into the core at the same time, *)
(* each with a tree or a bounds text of its own.  A search advances one    *)
(* predicate call at a time, so the calls of the two callers interleave.   *)
(* The state a call writes is its local result list `out`; the one value   *)
(* of package level is the compiled pattern boundsRe.                      *)
(* ---------------------------------------------------------------------- *)

\* largest number of nodes in the tree of a concurrent caller
MaxConcNodes == 2

\* var boundsRe = regexp.MustCompile(...)
BoundsPattern == "\\[(\\d+),(\\d+)]\\[(\\d+),(\\d+)]"

\* the attribute sets of the nodes of these trees
ConcKinds == { k \in NodeKinds : k.ContentDesc = "OK" }

\* the trees the callers search
ConcTrees ==
    [Rotation : {"0"},
     Nodes : UNION { ForestsOf(ConcKinds, n) : n \in 0..MaxConcNodes }]

\* the texts a caller parses
ConcTexts ==
    { FormatBounds(40, 50, 140, 150), <<"[", "1", ",", "2", "]">>, <<>> }

\* a caller that is about to run x.FindAll(f) on its tree h: the predicate
\* calls it has to make, its empty list out
FindAllCaller(h, f) ==
    [kind |-> "FindAll", h |-> h, f |-> f, text |-> <<>>,
     todo |-> XmlFindAll(h, f).calls, out |-> <<>>, pc |-> "run",
     nodes |-> <<>>, parsed |-> NoParse]

\* a caller that is about to run ParseBounds(text)
ParseCaller(text) ==
    [kind |-> "ParseBounds", h |-> [Rotation |-> "0", Nodes |-> <<>>],
     f |-> "none", text |-> text, todo |-> <<>>, out |-> <<>>, pc |-> "run",
     nodes |-> <<>>, parsed |-> NoParse]

\* the visitor of FindAll appending to one list shared by all callers
VisitSharedOut(cs, c) ==
    LET v == Head(cs[c].todo)
        t == [cs EXCEPT ![c].todo = Tail(@)]
    IN  IF Predicate(cs[c].f, v.n, v.pn)
        THEN [t EXCEPT ![1].out = Append(@, v.n)]
        ELSE t

\* one call of the visitor FindAll passes to Walk, made by caller c:
\* if predicate(n, pn) { out = append(out, n) }
Visit(cs, c) ==
    LET v == Head(cs[c].todo)
        t == [cs EXCEPT ![c].todo = Tail(@)]
    IN  IF Predicate(cs[c].f, v.n, v.pn)
        THEN [t EXCEPT ![c].out = Append(@, v.n)]
        ELSE t

InitConc ==
    /\ x = [Rotation |-> "0", Nodes |-> <<>>]
    /\ op = "none"
    /\ fn = "none"
    /\ start = NoStart
    /\ ret = NoRet
    /\ calls = <<>>
    /\ NoGeometry
    /\ dump = NoDump
    /\ tapOut = Nil
    /\ doc = NoDoc
    /\ taps = <<>>
    /\ steps = <<>>
    /\ adb = NoAdb
    /\ devs = NoDevs
    /\ \E h1 \in ConcTrees : \E f1 \in {"button", "isButton"} :
       \E c2 \in { FindAllCaller(h2, "always") : h2 \in ConcTrees }
                 \cup { ParseCaller(s) : s \in ConcTexts } :
          cc = [re |-> BoundsPattern, callers |-> <<FindAllCaller(h1, f1), c2>>]

\* a searching caller makes its next predicate call
DoVisit ==
    \E c \in DOMAIN cc.callers :
        /\ cc.callers[c].kind = "FindAll"
        /\ cc.callers[c].pc = "run"
        /\ cc.callers[c].todo # <<>>
        /\ cc' = [cc EXCEPT !.callers = Visit(cc.callers, c)]
        /\ op' = "Visit"
        /\ UNCHANGED <<core, dump, tapOut, doc, taps, steps, adb, devs>>

\* a searching caller has walked its whole tree and returns out
DoReturn ==
    \E c \in DOMAIN cc.callers :
        /\ cc.callers[c].kind = "FindAll"
        /\ cc.callers[c].pc = "run"
        /\ cc.callers[c].todo = <<>>
        /\ cc' = [cc EXCEPT !.callers[c].pc = "done",
                            !.callers[c].nodes = cc.callers[c].out]
        /\ op' = "Return"
        /\ UNCHANGED <<core, dump, tapOut, doc, taps, steps, adb, devs>>

\* a parsing caller matches its text against boundsRe and returns
DoConcParse ==
    \E c \in DOMAIN cc.callers :
        /\ cc.callers[c].kind = "ParseBounds"
        /\ cc.callers[c].pc = "run"
        /\ cc' = [cc EXCEPT
                    !.callers[c].pc = "done",
                    !.callers[c].parsed =
                        IF cc.re = BoundsPattern
                        THEN ParseBounds(cc.callers[c].text)
                        ELSE [rect |-> ZeroRect,
                              err |-> ErrBadBounds(cc.callers[c].text)]]
        /\ op' = "ConcParse"
        /\ UNCHANGED <<core, dump, tapOut, doc, taps, steps, adb, devs>>

NextConc ==
    \/ DoVisit
    \/ DoReturn
    \/ DoConcParse

SpecConc == InitConc /\ [][NextConc]_vars


(* ---------------------------------------------------------------------- *)
(* Positions in the tree, used to state the properties                     *)
(*                                                                         *)
(* A path <<i1, ..., ik>> names the node reached from a node sequence by   *)
(* taking element i1, then child i2 of it, and so on.  Document order is   *)
(* the order of the paths in which a node precedes its descendants and a   *)
(* sibling precedes the siblings to its right.                             *)
(* ---------------------------------------------------------------------- *)

RECURSIVE Paths(_)

Paths(forest) ==
    UNION { {<<i>>} \cup { <<i>> \o q : q \in Paths(forest[i].Children) } :
              i \in DOMAIN forest }

RECURSIVE NodeAt(_, _)

NodeAt(forest, p) ==
    IF Len(p) = 1 THEN forest[p[1]]
    ELSE NodeAt(forest[p[1]].Children, Tail(p))

Front(p) == SubSeq(p, 1, Len(p) - 1)

\* the parent of the node at p, or top for an element of the sequence itself
ParentAt(forest, p, top) ==
    IF Len(p) = 1 THEN top ELSE NodeAt(forest, Front(p))

\* p comes before q in document order
Before(p, q) ==
    /\ p # q
    /\ \/ Len(p) < Len(q) /\ SubSeq(q, 1, Len(p)) = p
       \/ \E k \in 1..Len(p) :
            /\ k <= Len(q)
            /\ SubSeq(p, 1, k - 1) = SubSeq(q, 1, k - 1)
            /\ p[k] < q[k]

\* the paths of S in document order
InOrder(S) ==
    [i \in 1..Cardinality(S) |->
        CHOOSE p \in S : Cardinality({ q \in S : Before(q, p) }) = i - 1]

\* the paths of the nodes for which predicate f holds
MatchPaths(forest, f) ==
    { p \in Paths(forest) :
        Predicate(f, NodeAt(forest, p), ParentAt(forest, p, ZeroNode)) }

\* the matching paths under top-level node i, in document order
SubtreeMatches(forest, f, i) ==
    InOrder({ p \in MatchPaths(forest, f) : p[1] = i })

\* top-level subtree i has a match and its first match has a Class
Qualifies(forest, f, i) ==
    LET m == SubtreeMatches(forest, f, i)
    IN  Len(m) > 0 /\ NodeAt(forest, m[1]).Class # ""

\* top-level subtree i has a match and its first match has no Class
FirstMatchEmptyClass(forest, f, i) ==
    LET m == SubtreeMatches(forest, f, i)
    IN  Len(m) > 0 /\ NodeAt(forest, m[1]).Class = ""

\* what the selection rule of Find yields on a node sequence
FirstQualifying(forest, f) ==
    IF \E i \in DOMAIN forest : Qualifies(forest, f, i)
    THEN LET k == CHOOSE i \in DOMAIN forest :
                    /\ Qualifies(forest, f, i)
                    /\ \A j \in 1..(i - 1) : ~Qualifies(forest, f, j)
         IN  [node |-> NodeAt(forest, SubtreeMatches(forest, f, k)[1]),
              nodes |-> <<>>, err |-> Nil]
    ELSE [node |-> ZeroNode, nodes |-> <<>>, err |-> ErrNotFound]

RECURSIVE CountNodes(_)

\* the number of nodes of a node sequence, descendants included
CountNodes(forest) ==
    IF forest = <<>> THEN 0
    ELSE 1 + CountNodes(Head(forest).Children) + CountNodes(Tail(forest))

(* ---------------------------------------------------------------------- *)
(* Properties                                                              *)
(* ---------------------------------------------------------------------- *)

C2_FindNeverReturnsEmptyClass ==
    (op = "Find" /\ ret.err = Nil) => ret.node.Class # ""

\* Find succeeded on a hierarchy in which an empty-Class node satisfies the
\* predicate
C2_Witness ==
    /\ op = "Find"
    /\ ret.err = Nil
    /\ \E p \in MatchPaths(x.Nodes, fn) : NodeAt(x.Nodes, p).Class = ""

\* C3: FindAll returns exactly the predicate-true nodes of the whole tree, in
\* preorder, depth-first, left-to-right document order.
C3_FindAllIsPreorderSubsequence ==
    op = "FindAll" =>
        LET m == InOrder(MatchPaths(x.Nodes, fn))
        IN  ret.nodes = [i \in DOMAIN m |-> NodeAt(x.Nodes, m[i])]

\* FindAll returned matches from two top-level subtrees, one of them nested,
\* while some node did not match
C3_Witness ==
    /\ op = "FindAll"
    /\ Len(ret.nodes) >= 2
    /\ \E p, q \in MatchPaths(x.Nodes, fn) : p[1] # q[1] /\ Len(p) > 1
    /\ MatchPaths(x.Nodes, fn) # Paths(x.Nodes)

\* C4: with no top-level node or no predicate-true node FindAll returns an
\* empty list and no error while FindNodes returns "not found" and no nodes;
\* with at least one match FindNodes returns the FindAll list and nil.
C4_EmptyVersusNotFound ==
    LET none == MatchPaths(x.Nodes, fn) = {}
    IN  /\ (op = "FindAll" /\ none) => (ret.nodes = <<>> /\ ret.err = Nil)
        /\ (op = "FindNodes" /\ ret.err # ErrXML /\ none) =>
               (ret.nodes = <<>> /\ ret.err = ErrNotFound)
        /\ (op = "FindNodes" /\ ret.err # ErrXML /\ ~none) =>
               (ret.nodes = XmlFindAll(x, fn).out /\ ret.err = Nil)

\* FindNodes reported "not found" on a hierarchy that has nodes, none of
\* which satisfies the predicate
C4_Witness ==
    /\ op = "FindNodes"
    /\ ret.err = ErrNotFound
    /\ x.Nodes # <<>>
    /\ MatchPaths(x.Nodes, fn) = {}

\* the trace Walk(n, pn, fn) is to make: the nodes under n in document
\* order, the start with pn and every other node with its immediate parent
WalkOrder(n, pn) ==
    LET ps == InOrder(Paths(<<n>>))
    IN  [i \in DOMAIN ps |->
            [n |-> NodeAt(<<n>>, ps[i]), pn |-> ParentAt(<<n>>, ps[i], pn)]]

\* C5: Walk calls fn(n, pn) first and then walks each child in sibling order
\* with n as its parent: the calls are the preorder sequence of the subtree
\* and every non-starting node comes with its immediate parent.
C5_WalkIsPreorderWithImmediateParent ==
    op = "Walk" => calls = WalkOrder(start.n, start.pn)

\* a Walk over a subtree with a grandchild, started with a parent argument
\* different from the grandchild's parent
C5_Witness ==
    /\ op = "Walk"
    /\ \E p \in Paths(<<start.n>>) : Len(p) = 3
    /\ start.n.Children[1] # start.n
    /\ start.pn # start.n

\* C6: a Walk calls the visitor exactly once for every node of the subtree,
\* so the number of calls is 1 plus the number of descendants of the start.
C6_WalkVisitsEachNodeOnce ==
    op = "Walk" =>
        /\ Len(calls) = 1 + CountNodes(start.n.Children)
        /\ \A v \in SubNodes(<<start.n>>) \cup { calls[i].n : i \in DOMAIN calls } :
              Cardinality({ i \in DOMAIN calls : calls[i].n = v }) =
              Cardinality({ p \in Paths(<<start.n>>) : NodeAt(<<start.n>>, p) = v })

\* a Walk over a start node with two children
C6_Witness ==
    /\ op = "Walk"
    /\ Len(start.n.Children) = 2
    /\ Len(calls) = 3

MatchPathsWithClass(forest, f) ==
    { p \in MatchPaths(forest, f) : NodeAt(forest, p).Class # "" }

\* C8: Find returns the first node of the whole tree, in depth-first order,
\* that satisfies the predicate and has a non-empty Class, skipping the nodes
\* with an empty Class, and returns "not found" only when there is none.
C8_FindReturnsFirstMatchWithClass ==
    op = "Find" =>
        LET m == InOrder(MatchPathsWithClass(x.Nodes, fn))
        IN  IF Len(m) > 0
            THEN ret.err = Nil /\ ret.node = NodeAt(x.Nodes, m[1])
            ELSE ret.err = ErrNotFound

\* C9 as stated: no element of the list FindAll or FindNodes returns has an
\* empty Class, even when an empty-Class node satisfies the predicate.
C9_NoEmptyClassInFindAll ==
    op \in {"FindAll", "FindNodes"} =>
        \A i \in DOMAIN ret.nodes : ret.nodes[i].Class # ""

\* C9 as amended: only Find withholds empty-Class nodes; the list FindAll and
\* FindNodes return holds as many empty-Class nodes as there are empty-Class
\* nodes that satisfy the predicate.
C9_OnlyFindWithholdsEmptyClass ==
    /\ (op = "Find" /\ ret.err = Nil) => ret.node.Class # ""
    /\ (op = "FindAll" \/ (op = "FindNodes" /\ ret.err # ErrXML)) =>
          Cardinality({ i \in DOMAIN ret.nodes : ret.nodes[i].Class = "" }) =
          Cardinality(MatchPaths(x.Nodes, fn) \ MatchPathsWithClass(x.Nodes, fn))

\* FindNodes returned a list with an empty-Class node in it
C9_Witness ==
    /\ op = "FindNodes"
    /\ ret.err = Nil
    /\ \E i \in DOMAIN ret.nodes : ret.nodes[i].Class = ""

\* C10: Find and FindAll call the predicate for a top-level node with the
\* zero Node as parent and for every other node with its immediate parent.
C10_PredicateParentArgument ==
    op \in {"Find", "FindAll"} =>
        LET ps == InOrder(Paths(x.Nodes))
        IN  /\ Len(calls) <= Len(ps)
            /\ op = "FindAll" => Len(calls) = Len(ps)
            /\ \A i \in DOMAIN calls :
                  /\ calls[i].n = NodeAt(x.Nodes, ps[i])
                  /\ calls[i].pn = ParentAt(x.Nodes, ps[i], ZeroNode)
                  /\ Len(ps[i]) = 1 =>
                        /\ calls[i].pn.Children = <<>>
                        /\ calls[i].pn.Class = ""
                        /\ calls[i].pn.ContentDesc = ""
                        /\ calls[i].pn.Clickable = ""
                        /\ calls[i].pn.Bounds = <<>>

\* a search called the predicate on two top-level nodes and on a child whose
\* parent is not the zero Node
C10_Witness ==
    /\ op \in {"Find", "FindAll"}
    /\ Len(x.Nodes) = 2
    /\ Len(calls) = 3
    /\ \E i \in DOMAIN calls : calls[i].pn # ZeroNode

(* ---------------------------------------------------------------------- *)
(* The bounds pattern, used to state the properties of the parser          *)
(* ---------------------------------------------------------------------- *)

\* t is one or more decimal digits
IsDigits(t) == t # <<>> /\ \A i \in DOMAIN t : t[i] \in Digits

\* the positions of character c in s
Positions(s, c) == { k \in DOMAIN s : s[k] = c }

\* the ways to read a part of s as [digits,digits][digits,digits]: the
\* positions of its "[", first ",", first "]", second "," and last "]"
Splits(s) ==
    { t \in Positions(s, "[") \X Positions(s, ",") \X Positions(s, "]")
            \X Positions(s, ",") \X Positions(s, "]") :
        /\ t[1] < t[2] /\ t[2] < t[3] /\ t[3] + 1 < t[4] /\ t[4] < t[5]
        /\ s[t[3] + 1] = "["
        /\ IsDigits(SubSeq(s, t[1] + 1, t[2] - 1))
        /\ IsDigits(SubSeq(s, t[2] + 1, t[3] - 1))
        /\ IsDigits(SubSeq(s, t[3] + 2, t[4] - 1))
        /\ IsDigits(SubSeq(s, t[4] + 1, t[5] - 1)) }

\* the four digit groups of the leftmost part of s that fits the pattern
FirstGroups(s) ==
    LET t == CHOOSE u \in Splits(s) : \A v \in Splits(s) : u[1] <= v[1]
    IN  << SubSeq(s, t[1] + 1, t[2] - 1), SubSeq(s, t[2] + 1, t[3] - 1),
           SubSeq(s, t[3] + 2, t[4] - 1), SubSeq(s, t[4] + 1, t[5] - 1) >>

RECURSIVE StripZeros(_)

\* a digit group without its leading zeros
StripZeros(g) ==
    IF Len(g) > 1 /\ Head(g) = "0" THEN StripZeros(Tail(g)) ELSE g

\* the int v is the decimal value of the digit group g
IsValueOf(v, g) == v >= 0 /\ Itoa(v) = StripZeros(g)

\* the Rect r holds the decimal values of the four groups gs
HoldsValues(r, gs) ==
    /\ IsValueOf(r.X1, gs[1])
    /\ IsValueOf(r.Y1, gs[2])
    /\ IsValueOf(r.X2, gs[3])
    /\ IsValueOf(r.Y2, gs[4])

\* s begins with the text p
StartsWith(s, p) == Len(p) <= Len(s) /\ SubSeq(s, 1, Len(p)) = p

\* C11: round trip: ParseBounds of the string formatted as "[x1,y1][x2,y2]"
\* from integers x1, y1, x2, y2 >= 0 returns a nil error and the Rect
\* (x1, y1, x2, y2).
C11_RoundTrip ==
    op = "ParseBounds" =>
        \A x1 \in CoordValues :
            StartsWith(b, <<"[">> \o Itoa(x1) \o <<",">>) =>
                \A y1, x2, y2 \in CoordValues :
                    b = FormatBounds(x1, y1, x2, y2) =>
                        /\ pb.err = NilErr
                        /\ pb.rect = [X1 |-> x1, Y1 |-> y1, X2 |-> x2, Y2 |-> y2]

\* ParseBounds ran on the formatting of four different corners, one of them
\* the largest int and one with several digits
C11_Witness ==
    /\ op = "ParseBounds"
    /\ b = FormatBounds(MaxInt, 0, 140, 1)
    /\ pb.rect.X1 = MaxInt

\* C12: on a string with no part of the form [digits,digits][digits,digits]
\* ParseBounds returns the zero Rect and an error that carries the string.
C12_MalformedBounds ==
    (op = "ParseBounds" /\ Splits(b) = {}) =>
        /\ pb.rect = ZeroRect
        /\ pb.err # NilErr
        /\ pb.err.arg = b

\* ParseBounds rejected a string that has both bracket pairs and a sign
C12_Witness ==
    /\ op = "ParseBounds"
    /\ pb.err # NilErr
    /\ Len(b) = 11
    /\ Positions(b, "-") # {}
    /\ Cardinality(Positions(b, "[")) = 2
    /\ Cardinality(Positions(b, "]")) = 2

\* C13: ParseBounds is not anchored: on a string with at least one part of
\* the form [digits,digits][digits,digits] it succeeds and returns the four
\* integers of the leftmost such part, whatever is before or after it.
C13_LeftmostMatch ==
    (op = "ParseBounds" /\ Splits(b) # {}) =>
        /\ pb.err = NilErr
        /\ HoldsValues(pb.rect, FirstGroups(b))

\* C14: ParseBounds never partially succeeds and drops no error: it returns
\* either a nil error and the decimal values of the four matched digit
\* groups, however long the groups, or an error.
C14_AllOrError ==
    op = "ParseBounds" =>
        \/ pb.err # NilErr
        \/ Splits(b) # {} /\ HoldsValues(pb.rect, FirstGroups(b))

\* h is d / 2 with the quotient truncated toward zero
IsTruncatedHalf(h, d) ==
    /\ d >= 0 => (h >= 0 /\ 2 * h <= d /\ d - 2 * h <= 1)
    /\ d < 0  => (h <= 0 /\ 2 * h >= d /\ 2 * h - d <= 1)

\* C15: for a node whose Bounds parses to (x1, y1, x2, y2), Middle returns
\* x = x1 + (x2-x1)/2 and y = y1 + (y2-y1)/2 with the division truncating
\* toward zero; "[100,200][300,400]" gives (200,300), "[0,0][1,1]" (0,0).
C15_CenterPoint ==
    op = "Middle" =>
        LET r == ParseBounds(b)
        IN  /\ r.err = NilErr =>
                 /\ IsTruncatedHalf(mid.x - r.rect.X1, r.rect.X2 - r.rect.X1)
                 /\ IsTruncatedHalf(mid.y - r.rect.Y1, r.rect.Y2 - r.rect.Y1)
            /\ b = FormatBounds(100, 200, 300, 400) => mid = [x |-> 200, y |-> 300]
            /\ b = FormatBounds(0, 0, 1, 1) => mid = [x |-> 0, y |-> 0]

\* Middle ran on a box of odd width and height
C15_Witness ==
    /\ op = "Middle"
    /\ b = FormatBounds(0, 0, 1, 1)
    /\ mid = [x |-> 0, y |-> 0]

\* C16: for a node whose Bounds ParseBounds rejects, the empty Bounds
\* included, Middle returns exactly (0,0).
C16_CenterOfBadBounds ==
    (op = "Middle" /\ Splits(b) = {}) => mid = [x |-> 0, y |-> 0]

\* Middle ran on a node whose Bounds lacks the second pair
C16_Witness ==
    /\ op = "Middle"
    /\ b = <<"[", "1", ",", "2", "]", "[", "3", "]">>
    /\ mid = [x |-> 0, y |-> 0]

\* the floor of (u + v) / 2 for u, v >= 0
FloorAvg(u, v) == (u \div 2) + (v \div 2) + (((u % 2) + (v % 2)) \div 2)

\* the ceiling of (u + v) / 2 for u, v >= 0
CeilAvg(u, v) == FloorAvg(u, v) + (((u % 2) + (v % 2)) % 2)

\* C17 as stated: for every accepted bounds string, with no requirement that
\* x2 >= x1 or y2 >= y1, Middle returns x = floor((x1+x2)/2) and
\* y = floor((y1+y2)/2).
C17_CenterIsFloorOfAverage ==
    (op = "Middle" /\ ParseBounds(b).err = NilErr) =>
        LET r == ParseBounds(b).rect
        IN  /\ mid.x = FloorAvg(r.X1, r.X2)
            /\ mid.y = FloorAvg(r.Y1, r.Y2)

\* C17 as amended: the half is cut toward the first corner: the center is
\* floor((x1+x2)/2) when x2 >= x1 and ceil((x1+x2)/2) when x2 < x1, and the
\* same for y.
C17_CenterCutTowardFirstCorner ==
    (op = "Middle" /\ ParseBounds(b).err = NilErr) =>
        LET r == ParseBounds(b).rect
        IN  /\ mid.x = IF r.X2 >= r.X1 THEN FloorAvg(r.X1, r.X2) ELSE CeilAvg(r.X1, r.X2)
            /\ mid.y = IF r.Y2 >= r.Y1 THEN FloorAvg(r.Y1, r.Y2) ELSE CeilAvg(r.Y1, r.Y2)

\* Middle ran on a box whose x2 is left of x1 by an odd distance
C17_Witness ==
    /\ op = "Middle"
    /\ b = FormatBounds(3, 0, 0, 1)
    /\ mid = [x |-> 2, y |-> 0]

\* one root node that is no "OK" button, with a single child that is the
\* clickable Button "OK" at [40,50][140,150]
IsButtonScenario(h) ==
    /\ Len(h.Nodes) = 1
    /\ ~(h.Nodes[1].ContentDesc = "OK" /\ h.Nodes[1].Clickable = "true")
    /\ Len(h.Nodes[1].Children) = 1
    /\ h.Nodes[1].Children[1].Class = ButtonClass
    /\ h.Nodes[1].Children[1].ContentDesc = "OK"
    /\ h.Nodes[1].Children[1].Clickable = "true"
    /\ h.Nodes[1].Children[1].Bounds = FormatBounds(40, 50, 140, 150)

\* C18: end to end: on a hierarchy with one root whose single child is the
\* clickable Button "OK" at [40,50][140,150], FindButton("OK") returns that
\* child with no error and its Middle is (90,100).
C18_EndToEnd ==
    IsButtonScenario(x) =>
        /\ op = "FindButton" =>
              (ret.err = Nil /\ ret.node = x.Nodes[1].Children[1])
        /\ (op = "Middle" /\ fn = "button") =>
              (ret.node = x.Nodes[1].Children[1] /\ mid = [x |-> 90, y |-> 100])

\* FindButton found the button under a TextView root and Middle was taken
C18_Witness ==
    /\ IsButtonScenario(x)
    /\ x.Nodes[1].Class = TextViewClass
    /\ op = "Middle"
    /\ fn = "button"
    /\ mid = [x |-> 90, y |-> 100]

\* C19: Walk, the searches and Middle leave the decoded hierarchy as it was:
\* no call changes a node's attributes, children or sibling order.
C19_HierarchyUnchanged == [][x' = x]_vars

\* Middle was taken of a node found in a hierarchy of several nodes, after
\* at least two calls
C19_Witness ==
    /\ op = "Middle"
    /\ CountNodes(x.Nodes) >= 2

(* ---------------------------------------------------------------------- *)
(* Properties of Find against the naive rule and against FindAll           *)
(* ---------------------------------------------------------------------- *)

\* the naive rule: the first predicate-true node in whole-tree preorder
NaiveFind(forest, f) ==
    LET m == InOrder(MatchPaths(forest, f))
    IN  IF Len(m) > 0
        THEN [node |-> NodeAt(forest, m[1]), nodes |-> <<>>, err |-> Nil]
        ELSE [node |-> ZeroNode, nodes |-> <<>>, err |-> ErrNotFound]

\* C26: Find agrees with the naive rule "first predicate-true node in
\* whole-tree preorder" whenever that node has a non-empty Class and whenever
\* no node satisfies the predicate; the two differ only when some top-level
\* subtree's first predicate-true node has an empty Class.
C26_FindAgreesWithNaiveRule ==
    op = "Find" =>
        LET m     == InOrder(MatchPaths(x.Nodes, fn))
            naive == NaiveFind(x.Nodes, fn)
        IN  /\ (Len(m) > 0 /\ NodeAt(x.Nodes, m[1]).Class # "") => ret = naive
            /\ Len(m) = 0 => ret = naive
            /\ ret # naive =>
                 \E i \in DOMAIN x.Nodes : FirstMatchEmptyClass(x.Nodes, fn, i)

\* Find and the naive rule both returned a node with a Class that is the
\* first of two matches of the second top-level subtree
C26_Witness ==
    /\ op = "Find"
    /\ ret.err = Nil
    /\ ret = NaiveFind(x.Nodes, fn)
    /\ LET m == InOrder(MatchPaths(x.Nodes, fn))
       IN  Len(m) >= 2 /\ m[1][1] = 2 /\ NodeAt(x.Nodes, m[2]) # ret.node

\* C29: when Find returns a node with a nil error, the node satisfies the
\* predicate with its actual parent and is an element of the list FindAll
\* returns for the same predicate; when the list of FindAll is empty, Find
\* returns "not found" together with the zero Node.
C29_FindWithinFindAll ==
    op = "Find" =>
        LET all == XmlFindAll(x, fn).out
        IN  /\ ret.err = Nil =>
                 /\ \E p \in Paths(x.Nodes) :
                      /\ NodeAt(x.Nodes, p) = ret.node
                      /\ Predicate(fn, ret.node, ParentAt(x.Nodes, p, ZeroNode))
                 /\ \E i \in DOMAIN all : all[i] = ret.node
            /\ all = <<>> => ret.err = ErrNotFound /\ ret.node = ZeroNode

\* Find returned a node below the top level that is not the head of the list
\* of FindAll
C29_Witness ==
    /\ op = "Find"
    /\ ret.err = Nil
    /\ LET all == XmlFindAll(x, fn).out
       IN  /\ Len(all) >= 2
           /\ all[1] # ret.node
           /\ \E i \in DOMAIN all : all[i] = ret.node
    /\ \A i \in DOMAIN x.Nodes : x.Nodes[i] # ret.node

(* ---------------------------------------------------------------------- *)
(* Elements in the dump text, used to state the properties of the decoder  *)
(*                                                                         *)
(* The depth after a token is the number of start tags minus the number of *)
(* end tags up to it; the end tag of an element is the first end tag after *)
(* its start tag that brings the depth below the depth of the start tag.   *)
(* ---------------------------------------------------------------------- *)

Depth(toks, i) ==
    Cardinality({ j \in 1..i : toks[j].t = "start" })
    - Cardinality({ j \in 1..i : toks[j].t = "end" })

\* the position of the end tag of the element that starts at i, 0 for none
MatchEnd(toks, i) ==
    LET S == { j \in (i + 1)..Len(toks) :
                 toks[j].t = "end" /\ Depth(toks, j) = Depth(toks, i) - 1 }
    IN  IF S = {} THEN 0 ELSE CHOOSE j \in S : \A k \in S : j <= k

\* the position of the first tag, 0 for none
RootTag(toks) ==
    LET S == { i \in DOMAIN toks : toks[i].t # "text" }
    IN  IF S = {} THEN 0 ELSE CHOOSE i \in S : \A k \in S : i <= k

\* the text holds a complete <hierarchy> element in which every element is
\* closed by an end tag of its own name
WellFormed(toks) ==
    LET r == RootTag(toks)
    IN  /\ r # 0
        /\ toks[r].t = "start"
        /\ toks[r].name = "hierarchy"
        /\ MatchEnd(toks, r) # 0
        /\ \A i \in r..MatchEnd(toks, r) :
             toks[i].t = "start" => toks[MatchEnd(toks, i)].name = toks[i].name

\* the start tags of the elements token i lies in
Enclosing(toks, i) ==
    { j \in 1..(i - 1) : toks[j].t = "start" /\ MatchEnd(toks, j) > i }

\* the <node> elements nested in the outer element through <node> elements
\* only
NodeElements(toks) ==
    { i \in DOMAIN toks :
        /\ toks[i].t = "start"
        /\ toks[i].name = "node"
        /\ RootTag(toks) \in Enclosing(toks, i)
        /\ \A j \in Enclosing(toks, i) \ {RootTag(toks)} : toks[j].name = "node" }

\* a set of positions in increasing order
SortedSeq(S) ==
    [k \in 1..Cardinality(S) |->
        CHOOSE i \in S : Cardinality({ j \in S : j < i }) = k - 1]

\* the field of Node the attribute k is decoded into
FieldOf(n, k) ==
    CASE k = "class"        -> n.Class
      [] k = "content-desc" -> n.ContentDesc
      [] k = "text"         -> n.Text
      [] k = "clickable"    -> n.Clickable
      [] k = "bounds"       -> n.Bounds

\* the names of the attributes of a start tag
AttrNames(tk) == { tk.attrs[j].k : j \in DOMAIN tk.attrs }

\* C22: for a well-formed dump the decoder succeeds, the nodes of the decoded
\* tree taken in preorder are the <node> elements of the text in source
\* order, each node lies as deep in the tree as its element is nested in the
\* text (top-level nodes are the direct <node> elements of the outer element,
\* children the directly nested ones) and carries the attributes written in
\* its start tag.
C22_DecodePreservesStructure ==
    (op \in {"ParseHierarchy", "NewXml"} /\ WellFormed(dump.data)) =>
        /\ doc.err = Nil
        /\ ~doc.isNil
        /\ LET els == SortedSeq(NodeElements(dump.data))
               ps  == InOrder(Paths(doc.h.Nodes))
           IN  /\ Len(ps) = Len(els)
               /\ \A k \in DOMAIN ps :
                    LET tk == dump.data[els[k]]
                        n  == NodeAt(doc.h.Nodes, ps[k])
                    IN  /\ Len(ps[k]) = Cardinality(Enclosing(dump.data, els[k]))
                        /\ \A j \in DOMAIN tk.attrs :
                             tk.attrs[j].k \in NodeAttrs =>
                                FieldOf(n, tk.attrs[j].k) = tk.attrs[j].v

\* a dump with <node> elements inside elements that are no <node> was decoded
\* into one top-level node with two different children
C22_Witness ==
    /\ op = "NewXml"
    /\ doc.err = Nil
    /\ \E i \in DOMAIN dump.data : dump.data[i].name = "extra"
    /\ Len(doc.h.Nodes) = 1
    /\ Len(doc.h.Nodes[1].Children) = 2
    /\ doc.h.Nodes[1].Children[1].Class # doc.h.Nodes[1].Children[2].Class

\* C23: decoding a well-formed dump succeeds and is tolerant: an attribute a
\* <node> start tag leaves out is the empty string in the Node, attributes
\* Node does not name are passed over, the attributes written next to them
\* are decoded all the same, and an element with no element nested in it
\* has an empty child sequence.
C23_DecodeIsTolerant ==
    (op \in {"ParseHierarchy", "NewXml"} /\ WellFormed(dump.data)) =>
        /\ doc.err = Nil
        /\ LET els == SortedSeq(NodeElements(dump.data))
               ps  == InOrder(Paths(doc.h.Nodes))
           IN  /\ Len(ps) = Len(els)
               /\ \A k \in DOMAIN ps :
                    LET tk == dump.data[els[k]]
                        n  == NodeAt(doc.h.Nodes, ps[k])
                    IN  /\ \A a \in NodeAttrs \ AttrNames(tk) :
                             IsEmptyAttr(Attr(a, FieldOf(n, a)))
                        /\ AttrNames(tk) \ NodeAttrs # {} =>
                             \A j \in DOMAIN tk.attrs :
                                tk.attrs[j].k \in NodeAttrs =>
                                   FieldOf(n, tk.attrs[j].k) = tk.attrs[j].v
                        /\ (\A j \in (els[k] + 1)..(MatchEnd(dump.data, els[k]) - 1) :
                               dump.data[j].t = "text")
                           => n.Children = <<>>

\* a start tag that leaves out class, writes content-desc and carries an
\* attribute Node does not name, and that holds only an element that is no
\* <node>, was decoded into a Node without children
C23_Witness ==
    /\ op = "ParseHierarchy"
    /\ doc.err = Nil
    /\ Len(doc.h.Nodes) = 2
    /\ doc.h.Nodes[2].Class = ""
    /\ doc.h.Nodes[2].ContentDesc = "OK"
    /\ doc.h.Nodes[2].Children = <<>>
    /\ \E i \in NodeElements(dump.data) :
         /\ "class" \notin AttrNames(dump.data[i])
         /\ "content-desc" \in AttrNames(dump.data[i])
         /\ "drawing-order" \in AttrNames(dump.data[i])
         /\ dump.data[i + 1].name = "extra"

(* ---------------------------------------------------------------------- *)
(* Properties of the Device layer                                          *)
(* ---------------------------------------------------------------------- *)

\* C24: when the dump text does not parse as the expected nested structure,
\* the decode returns an error and a nil tree, never what was decoded up to
\* the error, and d.XML, d.FindNode and d.FindNodes return that error with
\* no node and without a single predicate call.
C24_DecodeErrorStopsTheCall ==
    ( /\ op \in {"XML", "FindNode", "FindNodes"}
      /\ dump.err = Nil
      /\ ~WellFormed(dump.data) )
    => /\ doc.err \in {ErrEOF, ErrSyntax, ErrExpectedHierarchy}
       /\ doc.isNil
       /\ doc.h = ZeroHierarchy
       /\ ret = [node |-> ZeroNode, nodes |-> <<>>, err |-> doc.err]
       /\ calls = <<>>
       /\ steps = <<"dump", "decode">>

\* FindNodes ran on a dump that stops after a complete <node> element
C24_Witness ==
    /\ op = "FindNodes"
    /\ dump.err = Nil
    /\ Len(dump.data) = 3
    /\ dump.data[3] = EndTok("node")
    /\ ret.err = ErrSyntax

\* C27: ClickButton and ClickNode go through dump, decode, search and tap in
\* this order; when the dump, the decode or the search fails they return
\* that error and issue no tap; when the search succeeds they issue exactly
\* one tap, at the point Middle returns for the found node.
C27_ClickStepsInOrder ==
    op \in {"ClickButton", "ClickNode"} =>
        LET order == <<"dump", "decode", "search", "tap">>
            found == FirstQualifying(doc.h.Nodes, fn)
        IN  /\ steps = SubSeq(order, 1, Len(steps))
            /\ dump.err # Nil =>
                 steps = <<"dump">> /\ ret.err = dump.err /\ taps = <<>>
            /\ (dump.err = Nil /\ ~WellFormed(dump.data)) =>
                 /\ steps = <<"dump", "decode">>
                 /\ ret.err = doc.err
                 /\ ret.err # Nil
                 /\ taps = <<>>
            /\ (dump.err = Nil /\ WellFormed(dump.data) /\ found.err # Nil) =>
                 /\ steps = <<"dump", "decode", "search">>
                 /\ ret.err = ErrNotFound
                 /\ taps = <<>>
            /\ (dump.err = Nil /\ WellFormed(dump.data) /\ found.err = Nil) =>
                 /\ steps = order
                 /\ taps = <<Middle(found.node)>>
                 /\ ret.err = tapOut

\* ClickNode found the button below a text view and tapped its center once,
\* and the tap command failed
C27_Witness ==
    /\ op = "ClickNode"
    /\ steps = <<"dump", "decode", "search", "tap">>
    /\ taps = <<[x |-> 90, y |-> 100]>>
    /\ ret.err = ErrShell
    /\ Len(doc.h.Nodes) = 1
    /\ doc.h.Nodes[1].Class = TextViewClass
    /\ Len(doc.h.Nodes[1].Children) = 1

\* the nodes for which the condition of ClickNode(class, desc) holds
ClickMatches(forest, class, desc) ==
    { p \in Paths(forest) :
        LET n == NodeAt(forest, p)
        IN  /\ class = "" \/ n.Class = class
            /\ desc = "" \/ n.ContentDesc = desc \/ n.Text = desc }

\* C28: ClickNode(class, desc) searches with the predicate (class is empty or
\* Class = class) and (desc is empty or ContentDesc = desc or Text = desc),
\* and when one or several nodes match, the first of them in document order
\* is the one that is clicked.
C28_FirstMatchIsClicked ==
    ( /\ op = "ClickNode"
      /\ dump.err = Nil
      /\ WellFormed(dump.data) )
    => LET a == ClickNodeArgs(fn)
           m == InOrder(ClickMatches(doc.h.Nodes, a.class, a.desc))
       IN  IF Len(m) > 0
           THEN /\ ret.node = NodeAt(doc.h.Nodes, m[1])
                /\ taps = <<Middle(NodeAt(doc.h.Nodes, m[1]))>>
           ELSE ret.err = ErrNotFound /\ taps = <<>>

\* the Bounds string has no part of the form [digits,digits][digits,digits]
Unparsable(s) == Splits(s) = {}

\* C30: ClickNodeBy, ClickButton and ClickNode applied to a node whose Bounds
\* is empty or does not parse return no bounds error: they issue one tap at
\* (0,0) and return what the tap command returned.
C30_ClickOnBadBounds ==
    LET found == FirstQualifying(doc.h.Nodes, fn)
    IN  ( \/ op = "ClickNodeBy" /\ Unparsable(ret.node.Bounds)
          \/ /\ op \in {"ClickButton", "ClickNode"}
             /\ dump.err = Nil
             /\ WellFormed(dump.data)
             /\ found.err = Nil
             /\ Unparsable(found.node.Bounds) )
        => /\ taps = <<[x |-> 0, y |-> 0]>>
           /\ ret.err = tapOut

\* ClickButton found a button that has no Bounds, tapped (0,0) and returned
\* the error of the tap command
C30_Witness ==
    /\ op = "ClickButton"
    /\ ret.node.Class = ButtonClass
    /\ ret.node.Bounds = <<>>
    /\ taps = <<[x |-> 0, y |-> 0]>>
    /\ tapOut = ErrShell
    /\ ret.err = ErrShell

(* ---------------------------------------------------------------------- *)
(* Properties of GetDevices                                                *)
(*                                                                         *)
(* Line k of a text is the stretch between its (k-1)-th and k-th line      *)
(* feed; a field of a line is a longest stretch without white space.       *)
(* ---------------------------------------------------------------------- *)

\* the positions of the line feeds of s, with 0 and Len(s) + 1 at the ends
Breaks(s) == SortedSeq(Positions(s, "\n") \cup {0, Len(s) + 1})

\* line k of s, counted from 1
LineAt(s, k) == SubSeq(s, Breaks(s)[k] + 1, Breaks(s)[k + 1] - 1)

\* the first positions of the fields of a line, in increasing order
FieldStarts(l) ==
    SortedSeq({ i \in DOMAIN l :
                  ~IsSpace(l[i]) /\ (i = 1 \/ IsSpace(l[i - 1])) })

\* the field of l that starts at i
FieldAt(l, i) ==
    SubSeq(l, i, CHOOSE e \in i..Len(l) :
                   /\ \A j \in i..e : ~IsSpace(l[j])
                   /\ e = Len(l) \/ IsSpace(l[e + 1]))

\* field number j of l
FieldNo(l, j) == FieldAt(l, FieldStarts(l)[j])

\* the lines of s, other than the first, that have two or more fields of
\* which the second is "device"
DeviceLineNumbers(s) ==
    { k \in 2..(Len(Breaks(s)) - 1) :
        /\ Len(FieldStarts(LineAt(s, k))) >= 2
        /\ FieldNo(LineAt(s, k), 2) = DeviceWord }

\* C25: GetDevices returns, in output order, the first field of exactly the
\* lines of the output, other than the first line and blank lines, that have
\* at least two fields of which the second is "device"; a device whose line
\* says offline or unauthorized is not returned.
C25_GetDevicesSelectsDeviceLines ==
    (op = "GetDevices" /\ adb.err = Nil) =>
        LET ks == SortedSeq(DeviceLineNumbers(adb.output))
        IN  /\ devs.err = Nil
            /\ devs.devices =
                 [j \in 1..Len(ks) |-> FieldNo(LineAt(adb.output, ks[j]), 1)]
            /\ (\A k \in 2..(Len(Breaks(adb.output)) - 1) :
                   Len(FieldStarts(LineAt(adb.output, k))) >= 2 =>
                      FieldNo(LineAt(adb.output, k), 2)
                         \in {OfflineWord, UnauthorizedWord})
               => devs.devices = <<>>

\* GetDevices returned the one device of an output that lists it with
\* irregular spacing after a device that is offline
C25_Witness ==
    /\ op = "GetDevices"
    /\ devs = [devices |-> <<SerialA>>, err |-> Nil]
    /\ LineAt(adb.output, 1) = Header
    /\ LineAt(adb.output, 2) = SerialB \o <<"\t">> \o OfflineWord
    /\ LineAt(adb.output, 3) # SerialA \o <<"\t">> \o DeviceWord
    /\ Len(Breaks(adb.output)) = 5

(* ---------------------------------------------------------------------- *)
(* Properties of concurrent callers                                        *)
(* ---------------------------------------------------------------------- *)

\* C21: under every interleaving of the steps of two callers that each work
\* on a tree or text of their own, a call that has returned returned what it
\* returns when run alone, and the package-level pattern is never written.
C21_ConcurrentCallsAreIndependent ==
    /\ cc # <<>> => cc.re = BoundsPattern
    /\ \A c \in DOMAIN (IF cc = <<>> THEN <<>> ELSE cc.callers) :
         LET k == cc.callers[c]
         IN  k.pc = "done" =>
               /\ k.kind = "FindAll" => k.nodes = XmlFindAll(k.h, k.f).out
               /\ k.kind = "ParseBounds" => k.parsed = ParseBounds(k.text)

\* the first caller has returned a list of two nodes while the second
\* caller, searching another tree, has made some of its predicate calls,
\* has a node in its list and has calls left to make
C21_Witness ==
    /\ op \in {"Visit", "Return"}
    /\ cc.callers[1].pc = "done"
    /\ Len(cc.callers[1].nodes) = 2
    /\ cc.callers[2].kind = "FindAll"
    /\ cc.callers[2].h # cc.callers[1].h
    /\ cc.callers[2].pc = "run"
    /\ cc.callers[2].out # <<>>
    /\ cc.callers[2].todo # <<>>

====
